---- MODULE Spec2Model ----
(***************************************************************************)
(* Energy trading simulator: the simulation driver (TradingSimulator),     *)
(* the per-agent energy management problem (AgentEMS.solve_model) and the  *)
(* extraction of trades and storage levels (chalmers_interface).           *)
(*                                                                         *)
(* Quantities are fixed-point integers.  Energy is counted in units of     *)
(* 10^-6 kWh, the resolution DECIMALS_TO_ROUND_TO at which the program     *)
(* records values; a state of charge is counted in millionths; a price is  *)
(* counted in 10^-3 SEK per kWh and a cost in 10^-6 SEK.  A product with a *)
(* decimal coefficient is rounded to the nearest unit.  The solver is a    *)
(* nondeterministic choice of a termination condition and, when optimal,   *)
(* of a point that satisfies every constraint of the problem: the set of   *)
(* feasible points contains every optimal one.                             *)
(***************************************************************************)
EXTENDS Integers, Sequences, FiniteSets, TLC

VARIABLES
    config,               \* the configuration and input data of the job
    pc,                   \* position of the simulation thread
    job,                  \* the job row
    stop_event,           \* the flag of the StoppableThread
    batch_number,         \* index of the current batch
    thsps_in_this_batch,  \* horizon starts of the batch not yet simulated
    all_trades_list_batch,\* trades of the current batch, not yet persisted
    storage_levels_batch, \* storage levels of the current batch
    shallow_storage_end,  \* agent -> shallow BITES energy carried over
    deep_storage_end,     \* agent -> deep BITES energy carried over
    db_trades,            \* persisted trades
    db_levels,            \* persisted storage levels
    db_extra_costs,       \* persisted extra costs
    price_models,         \* what the price models have registered
    last_horizon,         \* the most recent call of optimize
    optimized,            \* the horizons handed to optimize, in order
    raised,               \* the exception that reached __call__
    solved,               \* the most recent solve, or prices asked for, on its own
    all_data_sets,        \* the stored mock data sets, by configuration
    mock_runs,            \* what the runs of the mock data generation return
    table_config,         \* the stored configurations, by ID
    table_agent,          \* the stored agents, by ID
    table_job,            \* the stored jobs
    returned,             \* what the most recent call on the tables returned
    session_state         \* the configuration that the app is editing

vars == <<config, pc, job, stop_event, batch_number, thsps_in_this_batch,
          all_trades_list_batch, storage_levels_batch, shallow_storage_end,
          deep_storage_end, db_trades, db_levels, db_extra_costs,
          price_models, last_horizon, optimized, raised, solved,
          all_data_sets, mock_runs, table_config, table_agent, table_job,
          returned, session_state>>

(***************************************************************************)
(* Bounds of the model.                                                    *)
(***************************************************************************)
NumAgents == 2
TradingHorizon == 2
NumPeriods == 12
MaxSolves == 3

(***************************************************************************)
(* Constants of the program.                                               *)
(***************************************************************************)
kWh == 1000000
VERY_SMALL_NUMBER == 1
number_of_batches == 5
Energy_shallow_cap_per_m2 == 46
Energy_deep_cap_per_m2 == 291
Heat_rate_shallow_per_m2 == 23
Kval_per_m2 == 30
Kloss_shallow == 9913
Kloss_deep == 9963
PERC_OF_HT_COVERABLE_BY_LT == 6
max_elec_transfer_between_agents == 500
max_heat_transfer_between_agents == 500
Pccmax == 100
chiller_COP == 15
summer_block_offset == 3912

One == kWh

(***************************************************************************)
(* Fixed-point arithmetic.                                                 *)
(***************************************************************************)
Abs(x) == IF x < 0 THEN -x ELSE x

Max(a, b) == IF a >= b THEN a ELSE b

Min(a, b) == IF a <= b THEN a ELSE b

\* <<quotient, remainder>> of x * n by d, for x, n >= 0 and d > 0,
\* computed digit by digit of n (in base 16) where the product x * n
\* would leave the 32-bit integers.
RECURSIVE MulDivMod(_, _, _)
MulDivMod(x, n, d) ==
    IF n = 0 THEN <<0, 0>>
    ELSE IF x <= 2147483647 \div n THEN <<(x * n) \div d, (x * n) % d>>
    ELSE LET shift(h, digit) ==
                 <<16 * h[1] + digit * (x \div d)
                     + ((16 * h[2] + digit * (x % d)) \div d),
                   (16 * h[2] + digit * (x % d)) % d>>
         IN  shift(MulDivMod(x, n \div 16, d), n % 16)

\* x * n / d rounded to the nearest unit.
MulDiv(x, n, d) ==
    LET round(qr, by) == qr[1] + (IF 2 * qr[2] >= by THEN 1 ELSE 0)
    IN  CHOOSE v \in {(IF a < 0 THEN -1 ELSE 1)
                         * round(MulDivMod(Abs(a), b, c), c) :
                      a \in {x}, b \in {n}, c \in {d}} : TRUE

RECURSIVE SumOver(_, _)
SumOver(S, f) ==
    IF S = {} THEN 0
    ELSE LET x == CHOOSE y \in S : TRUE
         IN  f[x] + SumOver(S \ {x}, f)

(***************************************************************************)
(* Calendar.  A period is an hour, numbered from 1 February 00:00 of the   *)
(* first year; no year is a leap year.  The job simulates the first hours  *)
(* of 1 February followed by the first hours of 14 July.                   *)
(***************************************************************************)
\* The days of a year before the first day of each month.
DaysBefore == <<0, 31, 59, 90, 120, 151, 181, 212, 243, 273, 304, 334>>

HourOfYear(period) == (period + 31 * 24) % (365 * 24)

\* The year of a period, counted from the first year.
Year(period) == (period + 31 * 24) \div (365 * 24)

Agents == 1 .. NumAgents

T == 0 .. (TradingHorizon - 1)

WinterPeriods == NumPeriods \div 2

trading_periods ==
    [i \in 1 .. NumPeriods |->
        IF i <= WinterPeriods THEN i - 1
        ELSE summer_block_offset + (i - 1 - WinterPeriods)]

Month(period) ==
    CHOOSE month \in 1 .. 12 :
        /\ DaysBefore[month] * 24 <= HourOfYear(period)
        /\ (month < 12) => (HourOfYear(period) < DaysBefore[month + 1] * 24)

should_use_summer_mode(start_datetime) == Month(start_datetime) \in {6, 7, 8}

(***************************************************************************)
(* Configuration and input data.                                           *)
(***************************************************************************)
area_info ==
    [TradingHorizon        |-> TradingHorizon,
     LocalMarketEnabled    |-> FALSE,
     StorageEndChargeLevel |-> (4 * One) \div 10,
     BatteryEfficiency     |-> 95,
     AccTankEfficiency     |-> 98,
     HeatTransferLoss      |-> 5,
     COPHeatPumpsHighTemp  |-> 3,
     COPHeatPumpsLowTemp   |-> 4,
     COPBoosterPumps       |-> 4,
     ACC_TANK_TEMPERATURE  |-> 65,
     ElectricityTax        |-> 360,
     ElectricityTransmissionFee |-> 40,
     ElectricityEffectFee  |-> 35000,
     ExternalElectricityWholesalePriceOffset |-> 50,
     HeatingEffectFee      |-> 68000,
     ExternalHeatingWholesalePriceFraction |-> 50]

NoDevices ==
    [max_capacity_kwh |-> 0, charge_limit_kwh |-> 0, discharge_limit_kwh |-> 0,
     acc_tank_volume |-> 0, heat_pump_max_input |-> 0,
     heat_pump_max_output |-> 0, booster_pump_max_input |-> 0,
     booster_pump_max_output |-> 0, atemp |-> 0, frac_for_bites |-> 0,
     hp_produce_cooling |-> FALSE]

\* The block agents a configuration may hold.
BlockAgentOf(profile) ==
    CASE profile = "prosumer" ->
           [NoDevices EXCEPT !.max_capacity_kwh = 3800000,
                             !.charge_limit_kwh = 2000000,
                             !.discharge_limit_kwh = 2000000]
      [] profile = "thermal" ->
           [NoDevices EXCEPT !.acc_tank_volume = 172512,
                             !.heat_pump_max_input = 1000000,
                             !.heat_pump_max_output = 4000000,
                             !.booster_pump_max_input = 1000000,
                             !.booster_pump_max_output = 3000000]
      [] profile \in {"bites", "bites_fine"} ->
           [NoDevices EXCEPT !.atemp = 100, !.frac_for_bites = 100]
      [] OTHER -> NoDevices

\* Consumption and production of a block agent in a period.
Usage(profile, period) ==
    LET even == (period % 2 = 0)
        zero == [elec_cons |-> 0, elec_prod |-> 0, hot_water |-> 0,
                 space_heat |-> 0, cooling |-> 0, heat_prod |-> 0]
    IN  CASE profile = "consumer" ->
               [zero EXCEPT !.elec_cons = IF even THEN 2000000 ELSE 1,
                            !.space_heat = IF even THEN 1500000 ELSE 2]
          [] profile = "prosumer" ->
               [zero EXCEPT !.elec_cons = 1000000,
                            !.elec_prod = IF even THEN 3000000 ELSE 0,
                            !.space_heat = 500000]
          [] profile = "thermal" ->
               [zero EXCEPT !.elec_cons = 1000000,
                            !.hot_water = IF even THEN 2548013 ELSE 0,
                            !.space_heat = 2000000,
                            !.cooling = IF even THEN 0 ELSE 300000]
          [] profile \in {"bites", "bites_fine"} ->
               [zero EXCEPT !.elec_cons = 500000,
                            !.space_heat = 3000000]
          [] profile = "no_tank" ->
               [zero EXCEPT !.elec_cons = 500000,
                            !.hot_water = IF Month(period) = 7 THEN 700000
                                          ELSE 0]
          [] profile \in {"consumer_free", "consumer_idle"} ->
               [zero EXCEPT !.elec_cons = 500000]
          [] profile = "overload" ->
               [zero EXCEPT !.elec_cons = IF Month(period) = 7 THEN 600000000
                                          ELSE 750000]
          [] OTHER -> zero

\* The values the solver is sampled at, for each variable it is free to
\* choose: the other variables follow from the equality constraints.
SolverGrid(profile) ==
    LET none == [Pcha |-> {0}, Pdis |-> {0}, Php |-> {0}, HTEScha |-> {0},
                 Energy_deep |-> {0}, deep_decay |-> FALSE, wash |-> {0},
                 Hsell_grid |-> {0}, heat_dump |-> {0}, SOC_idle |-> {}]
    IN  CASE profile = "prosumer" ->
               [none EXCEPT !.Pcha = {0, 2000000}, !.Pdis = {0, 1805000}]
          [] profile = "thermal" ->
               [none EXCEPT !.Php = {500000},
                            !.HTEScha = {0, 2653074}]
          [] profile = "bites" ->
               [none EXCEPT !.Energy_deep = {0, 500000}]
          [] profile = "bites_fine" ->
               [none EXCEPT !.Energy_deep = {0, 500000, 1000000},
                            !.deep_decay = TRUE]
          [] profile = "consumer_free" ->
               [none EXCEPT !.wash = {0, 250000},
                            !.Hsell_grid = {0, 250000},
                            !.heat_dump = {0, 100000}]
          [] profile = "consumer_idle" ->
               [none EXCEPT !.SOC_idle = {0}]
          [] OTHER -> none

DriverProfiles ==
    {"consumer", "prosumer", "thermal", "bites", "no_tank", "overload"}

SolverProfiles ==
    {"consumer", "prosumer", "thermal", "bites_fine", "consumer_free",
     "consumer_idle"}

(***************************************************************************)
(* AgentEMS.solve_model: the parameters of the model of one agent for one  *)
(* horizon, as optimize hands them over when the local market is disabled. *)
(***************************************************************************)
ModelOf(profile, start_datetime, BITES_Eshallow0, BITES_Edeep0) ==
    LET use(t) == Usage(profile, start_datetime + t)
        build(agent, summer_mode, build_area) ==
        [summer_mode |-> summer_mode,
         month       |-> Month(start_datetime),
         Pmax_grid   |-> max_elec_transfer_between_agents * kWh,
         Hmax_grid   |-> max_heat_transfer_between_agents * kWh,
         Pdem        |-> [t \in T |-> use(t).elec_cons],
         Hhw         |-> [t \in T |-> use(t).hot_water],
         Hsh         |-> [t \in T |-> use(t).space_heat],
         Cld         |-> [t \in T |-> use(t).cooling],
         Ppv         |-> [t \in T |-> use(t).elec_prod],
         Hsh_excess  |-> [t \in T |-> use(t).heat_prod],
         effe        |-> area_info.BatteryEfficiency,
         SOCBES0     |-> area_info.StorageEndChargeLevel,
         Emax_BES    |-> agent.max_capacity_kwh,
         Pmax_BES_Cha |-> agent.charge_limit_kwh,
         Pmax_BES_Dis |-> agent.discharge_limit_kwh,
         BITES_Eshallow0 |-> BITES_Eshallow0,
         BITES_Edeep0    |-> BITES_Edeep0,
         Energy_shallow_cap |->
             MulDiv(build_area * kWh, Energy_shallow_cap_per_m2, 1000),
         Energy_deep_cap |->
             MulDiv(build_area * kWh, Energy_deep_cap_per_m2, 1000),
         Heat_rate_shallow |->
             MulDiv(build_area * kWh, Heat_rate_shallow_per_m2, 1000),
         Kval        |-> MulDiv(build_area * kWh, Kval_per_m2, 1000),
         COPhp       |-> IF summer_mode THEN area_info.COPHeatPumpsLowTemp
                         ELSE area_info.COPHeatPumpsHighTemp,
         Phpmax      |-> agent.heat_pump_max_input,
         Hhpmax      |-> agent.heat_pump_max_output,
         HP_Cproduct_active |-> agent.hp_produce_cooling,
         COPhpB      |-> area_info.COPBoosterPumps,
         PhpBmax     |-> agent.booster_pump_max_input,
         HhpBmax     |-> agent.booster_pump_max_output,
         borehole    |-> agent.hp_produce_cooling,
         efft        |-> area_info.AccTankEfficiency,
         SOCTES0     |-> area_info.StorageEndChargeLevel,
         Tmax_TES    |-> area_info.ACC_TANK_TEMPERATURE,
         kwh_per_deg |-> MulDiv(agent.acc_tank_volume, 4182 * 998, 3600000),
         Heat_trans_loss |-> area_info.HeatTransferLoss]
        of(agent) ==
            build(agent, should_use_summer_mode(start_datetime),
                  (agent.atemp * agent.frac_for_bites) \div 100)
    IN  of(BlockAgentOf(profile))

\* The validation solve_model makes before it builds the model.
UnfillableHotWaterDemand(model) ==
    LET max_tank_discharge == model.kwh_per_deg * model.Tmax_TES
    IN  \E t \in T : model.Hhw[t] > max_tank_discharge

UnfillableCoolingDemand(model) ==
    LET unbounded == (~model.HP_Cproduct_active) /\ model.borehole
                     /\ model.month \notin {6, 7, 8}
        from_heat_pump == IF model.HP_Cproduct_active
                          THEN (model.COPhp - 1) * model.Phpmax ELSE 0
        max_cooling_produced_for_1_hour ==
            (Pccmax * chiller_COP * kWh) \div 10 + from_heat_pump
    IN  (~unbounded) /\ \E t \in T : model.Cld[t] > max_cooling_produced_for_1_hour

(***************************************************************************)
(* The constraints of the model.  A point s gives every variable a value   *)
(* for the hours it covers.                                                *)
(***************************************************************************)
\* A variant of the domains that bounds no variable.
VariableDomainsUnbounded(model, s, t) == TRUE

VariableDomains(model, s, t) ==
    /\ s.Pbuy_grid[t] >= 0 /\ s.Psell_grid[t] >= 0
    /\ s.U_power_buy_sell_grid[t] \in {0, 1}
    /\ s.Hbuy_grid[t] >= 0 /\ s.Hsell_grid[t] >= 0 /\ s.Cbuy_grid[t] >= 0
    /\ s.Pcha[t] >= 0 /\ s.Pdis[t] >= 0
    /\ s.SOCBES[t] >= 0 /\ s.SOCBES[t] <= One
    /\ s.Hhp[t] >= 0 /\ s.Chp[t] >= 0 /\ s.Php[t] >= 0
    /\ s.HTEScha[t] >= 0 /\ s.HTESdis[t] >= 0
    /\ s.SOCTES[t] >= 0 /\ s.SOCTES[t] <= One
    /\ s.Energy_shallow[t] >= 0
    /\ s.Loss_shallow[t] >= 0
    /\ s.Energy_deep[t] >= 0
    /\ s.Loss_deep[t] >= 0
    /\ s.HhpB[t] >= 0 /\ s.PhpB[t] >= 0
    /\ s.heat_dump[t] >= 0

max_Pbuy_grid(model, s, t) ==
    s.Pbuy_grid[t] <= model.Pmax_grid * s.U_power_buy_sell_grid[t]

max_Hbuy_grid(model, s, t) == s.Hbuy_grid[t] <= model.Hmax_grid

\* A variant of the limit on what is sold that does not look at the binary.
max_Psell_grid_whatever_is_bought(model, s, t) ==
    s.Psell_grid[t] <= model.Pmax_grid

max_Psell_grid(model, s, t) ==
    s.Psell_grid[t] <= model.Pmax_grid * (1 - s.U_power_buy_sell_grid[t])

\* A variant of the winter limit on the heat sold that is the summer limit.
max_Hsell_grid_winter_as_in_summer(model, s, t) ==
    s.Hsell_grid[t] <= model.Hmax_grid

max_Hsell_grid_winter(model, s, t) == s.Hsell_grid[t] <= 0

max_Hsell_grid_summer(model, s, t) == s.Hsell_grid[t] <= model.Hmax_grid

agent_Pbalance_winter(model, s, t) ==
    model.Ppv[t] + s.Pdis[t] + s.Pbuy_grid[t]
        = model.Pdem[t] + s.Php[t] + s.Pcha[t] + s.Psell_grid[t]

agent_Pbalance_summer(model, s, t) ==
    model.Ppv[t] + s.Pdis[t] + s.Pbuy_grid[t]
        = model.Pdem[t] + s.Php[t] + s.PhpB[t] + s.Pcha[t] + s.Psell_grid[t]

agent_Hbalance_winter(model, s, t) ==
    IF model.kwh_per_deg # 0
    THEN s.Hbuy_grid[t] + s.Hhp[t]
           = s.Hsell_grid[t] + s.Hcha_shallow[t] + model.Hsh[t]
             + s.HTEScha[t] + s.heat_dump[t]
    ELSE s.Hbuy_grid[t] + s.Hhp[t]
           = s.Hsell_grid[t] + s.Hcha_shallow[t] + model.Hsh[t]
             + model.Hhw[t] + s.heat_dump[t]

agent_Hbalance_summer(model, s, t) ==
    IF model.kwh_per_deg # 0
    THEN s.Hbuy_grid[t] + s.Hhp[t] + model.Hsh_excess[t]
           = s.Hsell_grid[t] + s.Hcha_shallow[t] + model.Hsh[t]
             + MulDiv(s.HTEScha[t], PERC_OF_HT_COVERABLE_BY_LT, 10)
             + s.heat_dump[t]
    ELSE s.Hbuy_grid[t] + s.Hhp[t] + model.Hsh_excess[t]
           = s.Hsell_grid[t] + s.Hcha_shallow[t] + model.Hsh[t]
             + MulDiv(model.Hhw[t], PERC_OF_HT_COVERABLE_BY_LT, 10)
             + s.heat_dump[t]

agent_Cbalance_winter(model, s, t) ==
    s.Cbuy_grid[t] + s.Chp[t]
        = model.Cld[t] * (IF model.borehole THEN 0 ELSE 1)

agent_Cbalance_summer(model, s, t) ==
    s.Cbuy_grid[t] + s.Chp[t] = model.Cld[t]

HTES_supplied_by_Bhp(model, s, t) ==
    IF model.kwh_per_deg # 0
    THEN s.HhpB[t] = MulDiv(s.HTEScha[t], 10 - PERC_OF_HT_COVERABLE_BY_LT, 10)
    ELSE s.HhpB[t] = MulDiv(model.Hhw[t], 10 - PERC_OF_HT_COVERABLE_BY_LT, 10)

Hhw_supplied_by_HTES(model, s, t) ==
    IF model.kwh_per_deg # 0 THEN s.HTESdis[t] = model.Hhw[t] ELSE TRUE

Prev(s, field, t, initial) == IF t = 0 THEN initial ELSE s[field][t - 1]

BITES_Eshallow_balance(model, s, t) ==
    s.Energy_shallow[t]
        = Prev(s, "Energy_shallow", t, model.BITES_Eshallow0)
          + s.Hcha_shallow[t] - s.Flow[t] - s.Loss_shallow[t]

BITES_shallow_dis(model, s, t) == -s.Hcha_shallow[t] <= model.Heat_rate_shallow

BITES_shallow_cha(model, s, t) == s.Hcha_shallow[t] <= model.Heat_rate_shallow

BITES_Edeep_balance(model, s, t) ==
    s.Energy_deep[t]
        = Prev(s, "Energy_deep", t, model.BITES_Edeep0)
          + s.Flow[t] - s.Loss_deep[t]

BITES_Eflow_between_storages(model, s, t) ==
    IF (model.Energy_shallow_cap = 0) \/ (model.Energy_deep_cap = 0)
    THEN s.Flow[t] = 0
    ELSE s.Flow[t]
           = MulDiv(s.Energy_shallow[t], model.Kval, model.Energy_shallow_cap)
             - MulDiv(s.Energy_deep[t], model.Kval, model.Energy_deep_cap)

BITES_max_Eshallow(model, s, t) ==
    s.Energy_shallow[t] <= model.Energy_shallow_cap

BITES_max_Edeep(model, s, t) == s.Energy_deep[t] <= model.Energy_deep_cap

BITES_shallow_loss(model, s, t) ==
    IF t = 0 THEN s.Loss_shallow[0] = 0
    ELSE s.Loss_shallow[t]
           = MulDiv(s.Energy_shallow[t - 1], 10000 - Kloss_shallow, 10000)

BITES_deep_loss(model, s, t) ==
    IF t = 0 THEN s.Loss_deep[0] = 0
    ELSE s.Loss_deep[t]
           = MulDiv(s.Energy_deep[t - 1], 10000 - Kloss_deep, 10000)

BITES_max_Hdis_shallow(model, s, t) == -s.Hcha_shallow[t] <= model.Hsh[t]

BITES_max_Hcha_shallow(model, s, t) ==
    s.Hcha_shallow[t] <= model.Hhpmax + model.Hmax_grid - model.Hsh[t]

BES_max_dis(model, s, t) == s.Pdis[t] <= model.Pmax_BES_Dis

BES_max_cha(model, s, t) == s.Pcha[t] <= model.Pmax_BES_Cha

BES_charge(model, Pcha) ==
    MulDiv(MulDiv(Pcha, model.effe, 100), One, model.Emax_BES)

BES_discharge(model, Pdis) ==
    MulDiv(MulDiv(Pdis, 100, model.effe), One, model.Emax_BES)

BES_Ebalance(model, s, t) ==
    IF model.Emax_BES = 0
    THEN s.Pcha[t] + s.Pdis[t] = model.Emax_BES
    ELSE s.SOCBES[t]
           = Prev(s, "SOCBES", t, model.SOCBES0)
             + BES_charge(model, s.Pcha[t]) - BES_discharge(model, s.Pdis[t])

\* A variant of the final state of charge that is left free.
BES_final_SOC_free(model, s) == TRUE

BES_final_SOC(model, s) == s.SOCBES[TradingHorizon - 1] = model.SOCBES0

BES_remove_binaries(model, s, t) ==
    IF (model.Pmax_BES_Dis = 0) \/ (model.Pmax_BES_Cha = 0)
    THEN s.Pcha[t] + s.Pdis[t] <= 0
    ELSE MulDiv(s.Pdis[t], One, model.Pmax_BES_Dis)
           + MulDiv(s.Pcha[t], One, model.Pmax_BES_Cha) <= One

HP_Hproduct(model, s, t) == s.Hhp[t] = model.COPhp * s.Php[t]

HP_Cproduct(model, s, t) ==
    IF model.HP_Cproduct_active
    THEN s.Chp[t] = (model.COPhp - 1) * s.Php[t]
    ELSE s.Chp[t] = 0

max_HP_Hproduct(model, s, t) == s.Hhp[t] <= model.Hhpmax

max_HP_Pconsumption(model, s, t) == s.Php[t] <= model.Phpmax

max_booster_HP_Hproduct_summer(model, s, t) == s.HhpB[t] <= model.HhpBmax

max_HTES_dis(model, s, t) == s.HTESdis[t] <= model.kwh_per_deg * model.Tmax_TES

max_HTES_cha(model, s, t) == s.HTEScha[t] <= model.kwh_per_deg * model.Tmax_TES

HTES_charge(model, HTEScha) ==
    MulDiv(MulDiv(HTEScha, model.efft, 100), One,
           model.kwh_per_deg * model.Tmax_TES)

HTES_discharge(model, HTESdis) ==
    MulDiv(MulDiv(HTESdis, 100, model.efft), One,
           model.kwh_per_deg * model.Tmax_TES)

HTES_Ebalance(model, s, t) ==
    IF model.kwh_per_deg = 0
    THEN s.HTESdis[t] + s.HTEScha[t] = model.kwh_per_deg
    ELSE s.SOCTES[t]
           = Prev(s, "SOCTES", t, model.SOCTES0)
             + (HTES_charge(model, s.HTEScha[t])
                - HTES_discharge(model, s.HTESdis[t]))

HTES_final_SOC(model, s) == s.SOCTES[TradingHorizon - 1] = model.SOCTES0

\* The constraints solve_model adds for hour t.
ConstraintsOfHour(model, s, t) ==
    /\ VariableDomains(model, s, t)
    /\ max_Pbuy_grid(model, s, t)
    /\ max_Hbuy_grid(model, s, t)
    /\ max_Psell_grid(model, s, t)
    /\ IF model.summer_mode
       THEN /\ max_Hsell_grid_summer(model, s, t)
            /\ agent_Pbalance_summer(model, s, t)
            /\ agent_Hbalance_summer(model, s, t)
            /\ HTES_supplied_by_Bhp(model, s, t)
       ELSE /\ max_Hsell_grid_winter(model, s, t)
            /\ agent_Pbalance_winter(model, s, t)
            /\ agent_Hbalance_winter(model, s, t)
    /\ IF model.month \in {6, 7, 8}
       THEN agent_Cbalance_summer(model, s, t)
       ELSE agent_Cbalance_winter(model, s, t)
    /\ Hhw_supplied_by_HTES(model, s, t)
    /\ BITES_Eshallow_balance(model, s, t)
    /\ BITES_shallow_dis(model, s, t)
    /\ BITES_shallow_cha(model, s, t)
    /\ BITES_Edeep_balance(model, s, t)
    /\ BITES_Eflow_between_storages(model, s, t)
    /\ BITES_shallow_loss(model, s, t)
    /\ BITES_deep_loss(model, s, t)
    /\ BITES_max_Hdis_shallow(model, s, t)
    /\ BITES_max_Hcha_shallow(model, s, t)
    /\ BITES_max_Eshallow(model, s, t)
    /\ BITES_max_Edeep(model, s, t)
    /\ BES_max_dis(model, s, t)
    /\ BES_max_cha(model, s, t)
    /\ BES_Ebalance(model, s, t)
    /\ BES_remove_binaries(model, s, t)
    /\ HP_Hproduct(model, s, t)
    /\ HP_Cproduct(model, s, t)
    /\ max_HP_Hproduct(model, s, t)
    /\ max_HP_Pconsumption(model, s, t)
    /\ IF model.summer_mode
       THEN max_booster_HP_Hproduct_summer(model, s, t)
       ELSE s.HhpB[t] = 0 /\ s.PhpB[t] = 0
    /\ max_HTES_dis(model, s, t)
    /\ max_HTES_cha(model, s, t)
    /\ HTES_Ebalance(model, s, t)

\* The constraints solve_model adds once for the horizon.
ConstraintsOfHorizon(model, s) ==
    /\ BES_final_SOC(model, s)
    /\ HTES_final_SOC(model, s)

(***************************************************************************)
(* The solver.  The points it may return are built hour by hour: the free  *)
(* variables are sampled from the grid, the others follow from the         *)
(* equality constraints, and every constraint is then checked.             *)
(***************************************************************************)
VariableNames ==
    {"Pbuy_grid", "Psell_grid", "U_power_buy_sell_grid", "Hbuy_grid",
     "Hsell_grid", "Cbuy_grid", "Pcha", "Pdis", "SOCBES", "Hhp", "Chp", "Php",
     "HTEScha", "HTESdis", "SOCTES", "Energy_shallow", "Hcha_shallow", "Flow",
     "Loss_shallow", "Energy_deep", "Loss_deep", "HhpB", "PhpB", "heat_dump"}

EmptyPoint == [v \in VariableNames |-> <<>>]

Extend(s, t, hour) == [v \in VariableNames |-> (t :> hour[v]) @@ s[v]]

\* The shallow energy that gives the flow its value, if there is one.
ShallowEnergyFor(model, Flow, Energy_deep) ==
    LET least(fits, guess) ==
            IF fits = {} THEN guess
            ELSE CHOOSE e \in fits : \A o \in fits : e <= o
        around(target, guess) ==
            least({e \in (guess - 1) .. (guess + 1) :
                      MulDiv(e, model.Kval, model.Energy_shallow_cap) = target},
                  guess)
        giving(target) ==
            around(target, MulDiv(target, model.Energy_shallow_cap, model.Kval))
    IN  giving(Flow + MulDiv(Energy_deep, model.Kval, model.Energy_deep_cap))

FreeChoices(model, grid, s, t) ==
    LET has_bites == (model.Energy_shallow_cap # 0) /\ (model.Energy_deep_cap # 0)
        choices(decayed) ==
        [Pcha        : grid.Pcha,
         Pdis        : grid.Pdis,
         Php         : grid.Php,
         PhpB        : {0},
         HTEScha     : grid.HTEScha,
         Energy_deep : IF ~has_bites THEN {decayed}
                       ELSE grid.Energy_deep
                            \cup (IF grid.deep_decay THEN {decayed} ELSE {}),
         wash        : grid.wash,
         Hsell_grid  : grid.Hsell_grid,
         heat_dump   : grid.heat_dump,
         SOCBES      : IF model.Emax_BES = 0
                       THEN {model.SOCBES0} \cup grid.SOC_idle ELSE {0},
         SOCTES      : IF model.kwh_per_deg = 0
                       THEN {model.SOCTES0} \cup grid.SOC_idle ELSE {0},
         U_power_buy_sell_grid : {0, 1}]
    IN  choices(Prev(s, "Energy_deep", t, model.BITES_Edeep0)
                - (IF t = 0 THEN 0
                   ELSE MulDiv(s.Energy_deep[t - 1], 10000 - Kloss_deep, 10000)))

\* The values of every variable in hour t that follow from a free choice c.
HourOf(model, s, t, c) ==
    LET has_bites == (model.Energy_shallow_cap # 0) /\ (model.Energy_deep_cap # 0)
        has_tank  == model.kwh_per_deg # 0
        Hhp == model.COPhp * c.Php
        Chp == IF model.HP_Cproduct_active THEN (model.COPhp - 1) * c.Php ELSE 0
        HTESdis == IF has_tank THEN model.Hhw[t] ELSE 0
        hot_water == IF has_tank THEN c.HTEScha ELSE model.Hhw[t]
        power_need == model.Pdem[t] + c.Php + c.PhpB + c.Pcha
                      - model.Ppv[t] - c.Pdis
        Psell_grid == Max(0, -power_need) + c.wash
        Cld == IF model.month \in {6, 7, 8} THEN model.Cld[t]
               ELSE model.Cld[t] * (IF model.borehole THEN 0 ELSE 1)
        heat_need(Hcha_shallow) ==
            IF model.summer_mode
            THEN c.Hsell_grid + Hcha_shallow + model.Hsh[t]
                 + MulDiv(hot_water, PERC_OF_HT_COVERABLE_BY_LT, 10)
                 + c.heat_dump - Hhp - model.Hsh_excess[t]
            ELSE c.Hsell_grid + Hcha_shallow + model.Hsh[t]
                 + hot_water + c.heat_dump - Hhp
        hour(Loss_shallow, Loss_deep, Flow, Energy_shallow, Hcha_shallow) ==
        [Pbuy_grid  |-> power_need + Psell_grid,
         Psell_grid |-> Psell_grid,
         U_power_buy_sell_grid |-> c.U_power_buy_sell_grid,
         Hbuy_grid  |-> heat_need(Hcha_shallow),
         Hsell_grid |-> c.Hsell_grid,
         Cbuy_grid  |-> Cld - Chp,
         Pcha       |-> c.Pcha,
         Pdis       |-> c.Pdis,
         SOCBES     |-> IF model.Emax_BES = 0 THEN c.SOCBES
                        ELSE Prev(s, "SOCBES", t, model.SOCBES0)
                             + BES_charge(model, c.Pcha)
                             - BES_discharge(model, c.Pdis),
         Hhp        |-> Hhp,
         Chp        |-> Chp,
         Php        |-> c.Php,
         HTEScha    |-> c.HTEScha,
         HTESdis    |-> HTESdis,
         SOCTES     |-> IF ~has_tank THEN c.SOCTES
                        ELSE Prev(s, "SOCTES", t, model.SOCTES0)
                             + (HTES_charge(model, c.HTEScha)
                                - HTES_discharge(model, HTESdis)),
         Energy_shallow |-> Energy_shallow,
         Hcha_shallow   |-> Hcha_shallow,
         Flow           |-> Flow,
         Loss_shallow   |-> Loss_shallow,
         Energy_deep    |-> c.Energy_deep,
         Loss_deep      |-> Loss_deep,
         HhpB       |-> IF model.summer_mode
                        THEN MulDiv(hot_water,
                                    10 - PERC_OF_HT_COVERABLE_BY_LT, 10)
                        ELSE 0,
         PhpB       |-> IF model.summer_mode THEN c.PhpB ELSE 0,
         heat_dump  |-> c.heat_dump]
        \* BITES_Eshallow_balance gives the charge of the shallow storage,
        with_shallow(Loss_shallow, Loss_deep, Flow, Energy_shallow) ==
            hour(Loss_shallow, Loss_deep, Flow, Energy_shallow,
                 Energy_shallow
                 - Prev(s, "Energy_shallow", t, model.BITES_Eshallow0)
                 + Flow + Loss_shallow)
        \* BITES_Eflow_between_storages the shallow energy,
        with_flow(Loss_shallow, Loss_deep, Flow) ==
            with_shallow(Loss_shallow, Loss_deep, Flow,
                         IF has_bites
                         THEN ShallowEnergyFor(model, Flow, c.Energy_deep)
                         ELSE 0)
        \* BITES_Edeep_balance the flow,
        with_losses(Loss_shallow, Loss_deep) ==
            with_flow(Loss_shallow, Loss_deep,
                      IF has_bites
                      THEN c.Energy_deep
                           - Prev(s, "Energy_deep", t, model.BITES_Edeep0)
                           + Loss_deep
                      ELSE 0)
    \* and BITES_shallow_loss and BITES_deep_loss the losses.
    IN  with_losses(IF t = 0 THEN 0
                    ELSE MulDiv(s.Energy_shallow[t - 1],
                                10000 - Kloss_shallow, 10000),
                    IF t = 0 THEN 0
                    ELSE MulDiv(s.Energy_deep[t - 1], 10000 - Kloss_deep,
                                10000))

\* The points that cover hours 0 .. t and satisfy the constraints of these.
RECURSIVE PointsUpTo(_, _, _)
PointsUpTo(model, grid, t) ==
    IF t < 0 THEN {EmptyPoint}
    ELSE UNION {
           LET hours == {HourOf(model, s, t, c) :
                            c \in FreeChoices(model, grid, s, t)}
               points == {Extend(s, t, hour) : hour \in hours}
           IN  {n \in points : ConstraintsOfHour(model, n, t)}
           : s \in PointsUpTo(model, grid, t - 1)}

FeasiblePoints(model, grid) ==
    {s \in PointsUpTo(model, grid, TradingHorizon - 1) :
        ConstraintsOfHorizon(model, s)}

(***************************************************************************)
(* Prices of a horizon, as the extraction reconstructs them.               *)
(***************************************************************************)
elec_grid_agent_guid == NumAgents + 1

heat_grid_agent_guid == NumAgents + 2

get_days_in_month(month) == IF month = 2 THEN 28 ELSE 31

nordpool_price(period) == 400 + 100 * (period % 3)

get_effect_fee_per_day(effect_fee, date_time) ==
    MulDiv(effect_fee, 1, get_days_in_month(Month(date_time)))

get_base_marginal_price(month_of_year) ==
    IF (5 <= month_of_year) /\ (month_of_year <= 9) THEN 300 ELSE 500

marginal_grid_fee_assuming_top_bracket == MulDiv(936, 1000, 1416)

get_retail_price_excl_effect_fee(period) ==
    get_base_marginal_price(Month(period))
    + (IF Month(period) <= 2 THEN marginal_grid_fee_assuming_top_bracket ELSE 0)

\* sum() over an indexed component of the model runs over its keys.
get_sum_of_param == SumOver(T, [t \in T |-> t])

RECURSIVE SumOfLargest(_, _, _)
SumOfLargest(hours, f, n) ==
    IF (n = 0) \/ (hours = {}) THEN 0
    ELSE LET top == CHOOSE t \in hours : \A o \in hours : f[t] >= f[o]
         IN  f[top] + SumOfLargest(hours \ {top}, f, n - 1)

\* The peak variables of the objective settle at the least value the
\* constraints allow.
avg_elec_peak_load(s) ==
    SumOfLargest(T, s.Pbuy_grid, 3) \div Min(3, TradingHorizon)

monthly_heat_peak_energy(s) == SumOver(T, s.Hbuy_grid)

\* A variant of the retail price whose grid fee is the effect fee alone.
calculate_estimated_electricity_retail_price_effect_only(hour, start_datetime, s, total_bought) ==
    LET elec_tax_fee   == area_info.ElectricityTax
        elec_trans_fee == area_info.ElectricityTransmissionFee
        elec_peak_load_fee ==
            get_effect_fee_per_day(area_info.ElectricityEffectFee, start_datetime)
        price_per_kwh == nordpool_price(start_datetime + hour)
                         + elec_trans_fee + elec_tax_fee
        total_effect_fee_for_horizon ==
            MulDiv(avg_elec_peak_load(s), elec_peak_load_fee, kWh)
        prices(effect_fee_per_kwh) ==
            [estimated_marginal_price |-> price_per_kwh + effect_fee_per_kwh,
             elec_tax_fee |-> elec_tax_fee,
             grid_fee_per_kwh |-> effect_fee_per_kwh]
    IN  prices(MulDiv(total_effect_fee_for_horizon, 1, total_bought))

calculate_estimated_electricity_retail_price(hour, start_datetime, s, total_bought) ==
    LET elec_tax_fee   == area_info.ElectricityTax
        elec_trans_fee == area_info.ElectricityTransmissionFee
        elec_peak_load_fee ==
            get_effect_fee_per_day(area_info.ElectricityEffectFee, start_datetime)
        price_per_kwh == nordpool_price(start_datetime + hour)
                         + elec_trans_fee + elec_tax_fee
        total_effect_fee_for_horizon ==
            MulDiv(avg_elec_peak_load(s), elec_peak_load_fee, kWh)
        prices(effect_fee_per_kwh) ==
            [estimated_marginal_price |-> price_per_kwh + effect_fee_per_kwh,
             elec_tax_fee |-> elec_tax_fee,
             grid_fee_per_kwh |-> effect_fee_per_kwh + elec_trans_fee]
    IN  prices(MulDiv(total_effect_fee_for_horizon, 1, total_bought))

\* A variant of the wholesale price that adds the tax and the transmission
\* fee of the retail price.
calculate_estimated_electricity_wholesale_price_with_fees(hour, start_datetime) ==
    nordpool_price(start_datetime + hour)
    + area_info.ElectricityTransmissionFee + area_info.ElectricityTax
    + area_info.ExternalElectricityWholesalePriceOffset

calculate_estimated_electricity_wholesale_price(hour, start_datetime) ==
    nordpool_price(start_datetime + hour)
    + area_info.ExternalElectricityWholesalePriceOffset

calculate_estimated_heating_retail_price(start_datetime, s, total_bought) ==
    LET heat_price == get_retail_price_excl_effect_fee(start_datetime)
        heat_peak_load_fee ==
            get_effect_fee_per_day(area_info.HeatingEffectFee, start_datetime)
        total_effect_fee_for_horizon ==
            MulDiv(monthly_heat_peak_energy(s), heat_peak_load_fee, 24 * kWh)
        effect_fee_per_kwh ==
            MulDiv(total_effect_fee_for_horizon, 1, total_bought)
    IN  heat_price + effect_fee_per_kwh

(***************************************************************************)
(* Trades.                                                                 *)
(***************************************************************************)
\* A trade holds the quantity before and after the transfer loss: a buyer
\* names what it takes before the loss, a seller what arrives after it.
\* Two trades are two rows of the trade table also when these fields agree:
\* row, the agent whose model the trade was extracted from, tells the trades
\* of one period apart.
Trade(period, action, resource, quantity, price, source, by_external, market, loss, grid_fee_paid, tax_paid, row) ==
    [row |-> row,
     period |-> period, action |-> action, resource |-> resource,
     quantity_pre_loss  |-> IF action = "BUY" THEN quantity
                            ELSE MulDiv(quantity, 100, 100 - loss),
     quantity_post_loss |-> IF action = "BUY"
                            THEN MulDiv(quantity, 100 - loss, 100)
                            ELSE quantity,
     price |-> price, source |-> source, by_external |-> by_external,
     market |-> market, loss |-> loss, grid_fee_paid |-> grid_fee_paid,
     tax_paid |-> tax_paid]

get_cost_of_trade(trade) ==
    IF trade.action = "BUY"
    THEN MulDiv(trade.quantity_pre_loss, trade.price, 1000)
    ELSE -MulDiv(trade.quantity_post_loss, trade.price, 1000)

(***************************************************************************)
(* Infeasibility.                                                          *)
(***************************************************************************)
\* The value every variable is initialised with; a solve that does not end
\* optimal leaves the variables there.
InitialPoint(model) ==
    [v \in VariableNames |->
        [t \in T |-> CASE v = "SOCBES" -> model.SOCBES0
                       [] v = "SOCTES" -> model.SOCTES0
                       [] OTHER -> 0]]

\* The name of a constraint of the model: indexed by the hour, or scalar.
ConstraintName(base, t) == <<base, "[", t, "]">>

ScalarConstraintName(base) == <<base>>

\* name.split('[')[0]
RECURSIVE SplitAtBracket(_)
SplitAtBracket(name) ==
    IF (name = <<>>) \/ (Head(name) = "[") THEN <<>>
    ELSE <<Head(name)>> \o SplitAtBracket(Tail(name))

\* The constraints solve_model adds for every hour, by name.
ActiveConstraints(model) ==
    {"con_max_Pbuy_grid", "con_max_Hbuy_grid", "con_max_Psell_grid",
     "con_Hhw_supplied_by_HTES", "con_BITES_Eshallow_balance",
     "con_BITES_shallow_dis", "con_BITES_shallow_cha",
     "con_BITES_Edeep_balance", "con_BITES_Eflow_between_storages",
     "con_BITES_shallow_loss", "con_BITES_deep_loss",
     "con_BITES_max_Hdis_shallow", "con_BITES_max_Hcha_shallow",
     "con_BITES_max_Eshallow", "con_BITES_max_Edeep", "con_BES_max_dis",
     "con_BES_max_cha", "con_BES_Ebalance", "con_BES_remove_binaries",
     "con_HP_Hproduct", "con_HP_Cproduct", "con_max_HP_Hproduct",
     "con_max_HP_Pconsumption", "con_max_HTES_dis", "con_max_HTES_cha",
     "con_HTES_Ebalance"}
    \cup (IF model.summer_mode
          THEN {"con_max_Hsell_grid_summer", "con_agent_Pbalance_summer",
                "con_agent_Hbalance_summer", "con_HTES_supplied_by_Bhp",
                "con_max_booster_HP_Hproduct_summer"}
          ELSE {"con_max_Hsell_grid_winter", "con_agent_Pbalance_winter",
                "con_agent_Hbalance_winter"})
    \cup (IF model.month \in {6, 7, 8} THEN {"con_agent_Cbalance_summer"}
          ELSE {"con_agent_Cbalance_winter"})

ConstraintHolds(base, model, s, t) ==
    CASE base = "con_max_Pbuy_grid" -> max_Pbuy_grid(model, s, t)
      [] base = "con_max_Hbuy_grid" -> max_Hbuy_grid(model, s, t)
      [] base = "con_max_Psell_grid" -> max_Psell_grid(model, s, t)
      [] base = "con_max_Hsell_grid_summer" -> max_Hsell_grid_summer(model, s, t)
      [] base = "con_agent_Pbalance_summer" -> agent_Pbalance_summer(model, s, t)
      [] base = "con_agent_Hbalance_summer" -> agent_Hbalance_summer(model, s, t)
      [] base = "con_HTES_supplied_by_Bhp" -> HTES_supplied_by_Bhp(model, s, t)
      [] base = "con_max_Hsell_grid_winter" -> max_Hsell_grid_winter(model, s, t)
      [] base = "con_agent_Pbalance_winter" -> agent_Pbalance_winter(model, s, t)
      [] base = "con_agent_Hbalance_winter" -> agent_Hbalance_winter(model, s, t)
      [] base = "con_agent_Cbalance_summer" -> agent_Cbalance_summer(model, s, t)
      [] base = "con_agent_Cbalance_winter" -> agent_Cbalance_winter(model, s, t)
      [] base = "con_Hhw_supplied_by_HTES" -> Hhw_supplied_by_HTES(model, s, t)
      [] base = "con_BITES_Eshallow_balance" ->
             BITES_Eshallow_balance(model, s, t)
      [] base = "con_BITES_shallow_dis" -> BITES_shallow_dis(model, s, t)
      [] base = "con_BITES_shallow_cha" -> BITES_shallow_cha(model, s, t)
      [] base = "con_BITES_Edeep_balance" -> BITES_Edeep_balance(model, s, t)
      [] base = "con_BITES_Eflow_between_storages" ->
             BITES_Eflow_between_storages(model, s, t)
      [] base = "con_BITES_shallow_loss" -> BITES_shallow_loss(model, s, t)
      [] base = "con_BITES_deep_loss" -> BITES_deep_loss(model, s, t)
      [] base = "con_BITES_max_Hdis_shallow" ->
             BITES_max_Hdis_shallow(model, s, t)
      [] base = "con_BITES_max_Hcha_shallow" ->
             BITES_max_Hcha_shallow(model, s, t)
      [] base = "con_BITES_max_Eshallow" -> BITES_max_Eshallow(model, s, t)
      [] base = "con_BITES_max_Edeep" -> BITES_max_Edeep(model, s, t)
      [] base = "con_BES_max_dis" -> BES_max_dis(model, s, t)
      [] base = "con_BES_max_cha" -> BES_max_cha(model, s, t)
      [] base = "con_BES_Ebalance" -> BES_Ebalance(model, s, t)
      [] base = "con_BES_remove_binaries" -> BES_remove_binaries(model, s, t)
      [] base = "con_HP_Hproduct" -> HP_Hproduct(model, s, t)
      [] base = "con_HP_Cproduct" -> HP_Cproduct(model, s, t)
      [] base = "con_max_HP_Hproduct" -> max_HP_Hproduct(model, s, t)
      [] base = "con_max_HP_Pconsumption" -> max_HP_Pconsumption(model, s, t)
      [] base = "con_max_booster_HP_Hproduct_summer" ->
             max_booster_HP_Hproduct_summer(model, s, t)
      [] base = "con_max_HTES_dis" -> max_HTES_dis(model, s, t)
      [] base = "con_max_HTES_cha" -> max_HTES_cha(model, s, t)
      [] base = "con_HTES_Ebalance" -> HTES_Ebalance(model, s, t)

\* The constraints of the model that do not hold at the point s.
find_infeasible_constraints(model, s) ==
    {ConstraintName(bt[1], bt[2]) :
        bt \in {c \in ActiveConstraints(model) \X T :
                   ~ConstraintHolds(c[1], model, s, c[2])}}
    \cup (IF BES_final_SOC(model, s) THEN {}
          ELSE {ScalarConstraintName("con_BES_final_SOC")})
    \cup (IF HTES_final_SOC(model, s) THEN {}
          ELSE {ScalarConstraintName("con_HTES_final_SOC")})

InfeasibilityError(agent_names, horizon_start, horizon_end, constraints) ==
    [type |-> "InfeasibilityError",
     message |-> "Infeasible optimization problem",
     agent_names |-> agent_names, hour_indices |-> <<>>,
     horizon_start |-> horizon_start, horizon_end |-> horizon_end,
     constraints |-> constraints]

\* solver.solve: the termination condition and the values the variables
\* of the model hold afterwards.
solve(model, grid) ==
    LET results(points) ==
            IF points = {}
            THEN {[termination_condition |-> "infeasible",
                   s |-> InitialPoint(model)]}
            ELSE {[termination_condition |-> "optimal", s |-> s] :
                     s \in points}
    IN  results(FeasiblePoints(model, grid))

NoError == [type |-> "none"]

\* A variant of handle_infeasibility that raises nothing.
handle_infeasibility_never(model, results, start_datetime, agent_names) ==
    NoError

\* handle_infeasibility: the error it raises when the solve did not end
\* optimal.
handle_infeasibility(model, results, start_datetime, agent_names) ==
    IF results.termination_condition # "optimal"
    THEN InfeasibilityError(
             agent_names, start_datetime, start_datetime + TradingHorizon,
             {SplitAtBracket(name) :
                 name \in find_infeasible_constraints(model, results.s)})
    ELSE NoError

(***************************************************************************)
(* Extraction of the trades, the storage levels and the price observations *)
(* of one agent from its solved model.                                     *)
(***************************************************************************)
NaN == "NaN"

\* Whether a value is not a number.
IsNaN(x) == ToString(x) = ToString(NaN)

\* Selling of heat is not defined.
calculate_estimated_heating_wholesale_price == NaN

\* The extraction reads the exchange of an agent with the grid under these
\* names; a name the model does not have is read as absent.
ModelAttribute ==
    [Pbuy_market |-> "Pbuy_grid", Psell_market |-> "Psell_grid",
     Hbuy_market |-> "Hbuy_grid"]

hasattr(variable_name) == variable_name \in DOMAIN ModelAttribute

get_variable_value_or_else(s, variable_name, index) ==
    IF hasattr(variable_name) THEN s[ModelAttribute[variable_name]][index]
    ELSE 0

PriceObservation(kind, resource, period, agent, value) ==
    [kind |-> kind, resource |-> resource, period |-> period,
     agent |-> agent, value |-> value]

add_agent_trade(bought_internal_name, sold_internal_name, hour, s, start_datetime, resource, agent_name, loss, total_bought) ==
    LET period == start_datetime + hour
        records(quantity, traded, trade_quantity, estimated_marginal_price,
                wholesale_price, grid_fee_per_kwh) ==
            [trades |->
                IF traded
                THEN {Trade(period, IF quantity > 0 THEN "BUY" ELSE "SELL",
                            resource, trade_quantity,
                            IF quantity > 0 THEN estimated_marginal_price
                            ELSE wholesale_price,
                            agent_name, FALSE, "EXTERNAL", loss,
                            grid_fee_per_kwh, 0, agent_name)}
                ELSE {},
             price_models |->
                (IF traded
                 THEN {PriceObservation("price_estimate_for_agent", resource,
                                        period, agent_name,
                                        estimated_marginal_price)}
                 ELSE {})
                \cup {PriceObservation("external_sell_for_agent", resource,
                                       period, agent_name, trade_quantity)}]
        priced(quantity, traded, elec) ==
            records(quantity, traded,
                    IF traded
                    THEN Abs(IF quantity > 0
                             THEN MulDiv(quantity, 100, 100 - loss)
                             ELSE quantity)
                    ELSE 0,
                    IF resource = "ELECTRICITY"
                    THEN elec.estimated_marginal_price
                    ELSE calculate_estimated_heating_retail_price(
                             start_datetime, s, total_bought),
                    IF resource = "ELECTRICITY"
                    THEN calculate_estimated_electricity_wholesale_price(
                             hour, start_datetime)
                    ELSE calculate_estimated_heating_wholesale_price,
                    IF resource = "ELECTRICITY" THEN elec.grid_fee_per_kwh
                    ELSE 0)
        of(quantity) ==
            priced(quantity,
                   (quantity > VERY_SMALL_NUMBER)
                   \/ (quantity < -VERY_SMALL_NUMBER),
                   calculate_estimated_electricity_retail_price(
                       hour, start_datetime, s, total_bought))
    IN  of(IF hasattr(sold_internal_name)
           THEN s[ModelAttribute[bought_internal_name]][hour]
                - s[ModelAttribute[sold_internal_name]][hour]
           ELSE s[ModelAttribute[bought_internal_name]][hour])

add_external_elec_trade(bought_from_external_name, hour, s, sold_to_external_name, start_datetime, grid_agent_guid, agent_name, loss, total_bought) ==
    LET period == start_datetime + hour
        of(external_quantity, elec) ==
            IF external_quantity > VERY_SMALL_NUMBER
            THEN [trades |->
                     {Trade(period, "BUY", "ELECTRICITY",
                            MulDiv(external_quantity, 100, 100 - loss),
                            calculate_estimated_electricity_wholesale_price(
                                hour, start_datetime),
                            grid_agent_guid, TRUE, "EXTERNAL", loss, 0, 0,
                            agent_name)},
                  price_models |-> {}]
            ELSE LET sold == external_quantity < -VERY_SMALL_NUMBER
                     trade_quantity == IF sold THEN -external_quantity ELSE 0
                 IN  [trades |->
                         IF sold
                         THEN {Trade(period, "SELL", "ELECTRICITY",
                                     trade_quantity,
                                     elec.estimated_marginal_price,
                                     grid_agent_guid, TRUE, "EXTERNAL", loss,
                                     0, elec.elec_tax_fee, agent_name)}
                         ELSE {},
                      price_models |->
                         {PriceObservation("external_sell", "ELECTRICITY",
                                           period, agent_name,
                                           trade_quantity)}]
    IN  of(get_variable_value_or_else(s, sold_to_external_name, hour)
           - get_variable_value_or_else(s, bought_from_external_name, hour),
           calculate_estimated_electricity_retail_price(
               hour, start_datetime, s, total_bought))

add_external_heat_trade(bought_from_external_name, hour, s, sold_to_external_name, start_datetime, grid_agent_guid, agent_name, loss, retail_price, wholesale_price) ==
    LET period == start_datetime + hour
        of(external_quantity) ==
            IF external_quantity > VERY_SMALL_NUMBER
            THEN [trades |->
                     {Trade(period, "BUY", "HIGH_TEMP_HEAT",
                            MulDiv(external_quantity, 100, 100 - loss),
                            wholesale_price, grid_agent_guid, TRUE, "EXTERNAL",
                            loss, 0, 0, agent_name)},
                  price_models |-> {}]
            ELSE LET sold == external_quantity < -VERY_SMALL_NUMBER
                     trade_quantity == IF sold THEN -external_quantity ELSE 0
                 IN  [trades |->
                         IF sold
                         THEN {Trade(period, "SELL", "HIGH_TEMP_HEAT",
                                     trade_quantity, retail_price,
                                     grid_agent_guid, TRUE, "EXTERNAL", loss,
                                     0, 0, agent_name)}
                         ELSE {},
                      price_models |->
                         {PriceObservation("external_sell", "HIGH_TEMP_HEAT",
                                           period, agent_name,
                                           trade_quantity)}]
    IN  of(get_variable_value_or_else(s, sold_to_external_name, hour)
           - get_variable_value_or_else(s, bought_from_external_name, hour))

\* The union of what a step of the extraction yields for every hour.
Gather(per_hour) ==
    [trades       |-> UNION {per_hour[hour].trades : hour \in T},
     price_models |-> UNION {per_hour[hour].price_models : hour \in T}]

\* What two steps of the extraction yield together.
Both(first, second) ==
    [trades       |-> first.trades \cup second.trades,
     price_models |-> first.price_models \cup second.price_models]

\* A variant of get_power_transfers that leaves out the trades of the agent.
get_power_transfers_external_only(s, start_datetime, grid_agent_guid, agent_guid) ==
    Gather([hour \in T |->
        add_external_elec_trade("Pbuy_market", hour, s, "Psell_market",
                                start_datetime, grid_agent_guid, agent_guid,
                                0, get_sum_of_param)])

get_power_transfers(s, start_datetime, grid_agent_guid, agent_guid) ==
    LET total_bought == get_sum_of_param
        agent_trades == Gather([hour \in T |->
            add_agent_trade("Pbuy_market", "Psell_market", hour, s,
                            start_datetime, "ELECTRICITY", agent_guid, 0,
                            total_bought)])
        external_trades == Gather([hour \in T |->
            add_external_elec_trade("Pbuy_market", hour, s, "Psell_market",
                                    start_datetime, grid_agent_guid,
                                    agent_guid, 0, total_bought)])
    IN  Both(agent_trades, external_trades)

\* A variant of get_heat_transfers that records the heat under the resource
\* of the power transfers.
get_heat_transfers_as_power(model, s, start_datetime, grid_agent_guid, agent_guid) ==
    LET total_bought == get_sum_of_param
        retail_price == calculate_estimated_heating_retail_price(
                            start_datetime, s, total_bought)
        relabel(out) ==
            [out EXCEPT !.trades =
                {[trade EXCEPT !.resource = "ELECTRICITY"] : trade \in @}]
        agent_trades == Gather([hour \in T |->
            add_agent_trade("Hbuy_market", "NA", hour, s, start_datetime,
                            "HIGH_TEMP_HEAT", agent_guid,
                            model.Heat_trans_loss, total_bought)])
        external_trades == Gather([hour \in T |->
            add_external_heat_trade("Hbuy_market", hour, s, "NA",
                                    start_datetime, grid_agent_guid,
                                    agent_guid, model.Heat_trans_loss,
                                    retail_price, NaN)])
    IN  relabel(Both(agent_trades, external_trades))

get_heat_transfers(model, s, start_datetime, grid_agent_guid, agent_guid) ==
    LET resource == IF should_use_summer_mode(start_datetime)
                       /\ area_info.LocalMarketEnabled
                    THEN "LOW_TEMP_HEAT" ELSE "HIGH_TEMP_HEAT"
        total_bought == get_sum_of_param
        retail_price == calculate_estimated_heating_retail_price(
                            start_datetime, s, total_bought)
        agent_trades == Gather([hour \in T |->
            add_agent_trade("Hbuy_market", "NA", hour, s, start_datetime,
                            resource, agent_guid, model.Heat_trans_loss,
                            total_bought)])
        external_trades == Gather([hour \in T |->
            add_external_heat_trade("Hbuy_market", hour, s, "NA",
                                    start_datetime, grid_agent_guid,
                                    agent_guid, model.Heat_trans_loss,
                                    retail_price,
                                    calculate_estimated_heating_wholesale_price)])
    IN  Both(agent_trades, external_trades)

Level(key, agent, period, level) ==
    [key |-> key, agent |-> agent, period |-> period, level |-> level]

\* One level for each hour of the horizon, at the resolution of the record.
get_value_per_period(s, start_datetime, key, agent, variable_name) ==
    {Level(key, agent, start_datetime + hour, s[variable_name][hour]) :
        hour \in T}

extract_outputs_for_agent(model, s, start_datetime, agent_guid) ==
    LET level(key, variable_name) ==
            get_value_per_period(s, start_datetime, key, agent_guid,
                                 variable_name)
        outputs(trades) ==
            [trades |-> trades.trades,
             metadata |->
                 level("BATTERY_LEVEL", "SOCBES")
                 \cup level("ACC_TANK_LEVEL", "SOCTES")
                 \cup level("SHALLOW_STORAGE_ABS", "Energy_shallow")
                 \cup level("DEEP_STORAGE_ABS", "Energy_deep")
                 \cup level("SHALLOW_LOSS", "Loss_shallow")
                 \cup level("DEEP_LOSS", "Loss_deep"),
             price_models |-> trades.price_models]
    IN  outputs(Both(get_power_transfers(s, start_datetime,
                                         elec_grid_agent_guid, agent_guid),
                     get_heat_transfers(model, s, start_datetime,
                                        heat_grid_agent_guid, agent_guid)))

\* The level of every agent at the last hour of the horizon.
get_final_storage_level(trading_horizon, storage_levels, key, horizon_start) ==
    LET final == {l \in storage_levels :
                     /\ l.key = key
                     /\ l.period = horizon_start + (trading_horizon - 1)}
    IN  [agent \in {l.agent : l \in final} |->
            (CHOOSE l \in final : l.agent = agent).level]

(***************************************************************************)
(* optimize: one horizon, the agents solved one after the other.           *)
(***************************************************************************)
\* The handler of optimize for an error of the solving code: the error
\* that leaves optimize in its place.
reraise(e, start_datetime) ==
    InfeasibilityError(e.agent_names, start_datetime,
                       start_datetime + TradingHorizon, {})

RuntimeError(message) == [type |-> "RuntimeError", message |-> message]

Exception(message) == [type |-> "Exception", message |-> message]

NothingExtracted ==
    [trades |-> {}, metadata |-> {}, price_models |-> {},
     termination_conditions |-> <<>>]

\* The outcomes of solving the agents from i_agent on, after the agents
\* before it have yielded acc.  An outcome is what optimize returns or the
\* error that leaves it, with what it has written to the price models and
\* the termination conditions of the solves it has made.
RECURSIVE SolveAgentsFrom(_, _, _)
SolveAgentsFrom(i_agent, inputs, acc) ==
    LET raises(handled, error, termination_conditions) ==
            [kind |-> error.type, trades |-> {}, metadata |-> {},
             price_models |-> acc.price_models,
             termination_conditions |-> termination_conditions,
             handled |-> handled, error |-> error]
        extracted(out, results) ==
            SolveAgentsFrom(i_agent + 1, inputs,
                [trades |-> acc.trades \cup out.trades,
                 metadata |-> acc.metadata \cup out.metadata,
                 price_models |-> acc.price_models \cup out.price_models,
                 termination_conditions |->
                     Append(acc.termination_conditions,
                            results.termination_condition)])
        after_solve(model, results, e) ==
            IF e.type # "none"
            THEN {raises(e, reraise(e, inputs.start_datetime),
                         Append(acc.termination_conditions,
                                results.termination_condition))}
            ELSE UNION {extracted(out, results) :
                           out \in {extract_outputs_for_agent(
                                        model, results.s,
                                        inputs.start_datetime, i_agent)}}
        solve_model(profile, model) ==
            IF UnfillableHotWaterDemand(model)
            THEN {raises(NoError, RuntimeError("Unfillable hot water demand"),
                         acc.termination_conditions)}
            ELSE IF UnfillableCoolingDemand(model)
            THEN {raises(NoError, RuntimeError("Unfillable cooling demand"),
                         acc.termination_conditions)}
            ELSE UNION {after_solve(model, results,
                                    handle_infeasibility(
                                        model, results, inputs.start_datetime,
                                        <<i_agent>>)) :
                           results \in solve(model, SolverGrid(profile))}
        agent(profile) ==
            UNION {solve_model(profile, model) :
                      model \in {ModelOf(profile, inputs.start_datetime,
                                         inputs.shallow_storage_start[i_agent],
                                         inputs.deep_storage_start[i_agent])}}
    IN  IF i_agent > NumAgents
        THEN {[kind |-> "returned", trades |-> acc.trades,
               metadata |-> acc.metadata, price_models |-> acc.price_models,
               termination_conditions |-> acc.termination_conditions,
               handled |-> NoError, error |-> NoError]}
        ELSE agent(inputs.block_agents[i_agent])

\* A variant of optimize that starts every building storage empty.
optimize_from_empty(block_agents, start_datetime, shallow_storage_start_dict, deep_storage_start_dict) ==
    {[outcome |-> o, shallow_storage_start |-> [agent \in Agents |-> 0],
      deep_storage_start |-> [agent \in Agents |-> 0]] :
        o \in SolveAgentsFrom(1,
                 [block_agents |-> block_agents,
                  start_datetime |-> start_datetime,
                  shallow_storage_start |-> [agent \in Agents |-> 0],
                  deep_storage_start |-> [agent \in Agents |-> 0]],
                 NothingExtracted)}

optimize(block_agents, start_datetime, shallow_storage_start_dict, deep_storage_start_dict) ==
    LET shallow_storage_start ==
            [agent \in Agents |->
                IF agent \in DOMAIN shallow_storage_start_dict
                THEN shallow_storage_start_dict[agent] ELSE 0]
        deep_storage_start ==
            [agent \in Agents |->
                IF agent \in DOMAIN shallow_storage_start_dict
                THEN deep_storage_start_dict[agent] ELSE 0]
    IN  {[outcome |-> o, shallow_storage_start |-> shallow_storage_start,
          deep_storage_start |-> deep_storage_start] :
            o \in SolveAgentsFrom(1,
                     [block_agents |-> block_agents,
                      start_datetime |-> start_datetime,
                      shallow_storage_start |-> shallow_storage_start,
                      deep_storage_start |-> deep_storage_start],
                     NothingExtracted)}

(***************************************************************************)
(* The job row and the rows that belong to it.                             *)
(***************************************************************************)
NoJob == [exists |-> FALSE, start_time |-> FALSE, end_time |-> FALSE,
          fail_info |-> NoError]

update_job_with_time(db, attribute) ==
    [db EXCEPT !.job = IF attribute = "start_time"
                       THEN [@ EXCEPT !.start_time = TRUE]
                       ELSE [@ EXCEPT !.end_time = TRUE]]

set_error_info(db, e) == [db EXCEPT !.job = [@ EXCEPT !.fail_info = e]]

delete_job(db, only_delete_associated_data) ==
    [job |-> IF only_delete_associated_data THEN db.job ELSE NoJob,
     trades |-> {}, levels |-> {}, extra_costs |-> {}]

bulk_insert(table, rows) == table \cup rows

(***************************************************************************)
(* The exact prices of a month and the correction of what the estimated    *)
(* prices have charged.  Costs are in 10^-6 SEK.                           *)
(***************************************************************************)
Day(period) == period \div 24

MonthStart(month) == IF month = 2 THEN 0 ELSE summer_block_offset - 13 * 24

get_sells(observations, resource, agent) ==
    {o \in observations : /\ o.kind = "external_sell_for_agent"
                          /\ o.resource = resource
                          /\ o.agent = agent}

SumOfValues(observations) ==
    SumOver(observations, [o \in observations |-> o.value])

SumOfQuantities(trades) ==
    SumOver(trades, [trade \in trades |-> trade.quantity])

calculate_consumption_this_month(dt_series, year, month) ==
    SumOfValues({o \in dt_series : /\ Year(o.period) = year
                                   /\ Month(o.period) = month})

\* The sells of every January and February of the data.
JanFebSells(dt_series) == {o \in dt_series : Month(o.period) <= 2}

\* The mean of the sells of January and February of the year of the period,
\* of every January and February of the data when that year has none.
calculate_jan_feb_avg_heating_sold_of_the_year(dt_series, period) ==
    LET of_the_year == {o \in JanFebSells(dt_series) :
                           Year(o.period) = Year(period)}
        subset == IF of_the_year # {} THEN of_the_year
                  ELSE JanFebSells(dt_series)
    IN  IF subset = {} THEN NaN
        ELSE SumOfValues(subset) \div Cardinality(subset)

\* The mean of the sells of January and February of the year before a
\* period of these months, of the year of a later period; of every January
\* and February of the data when that year has none; not a number when the
\* data has none at all.
calculate_jan_feb_avg_heating_sold(dt_series, period) ==
    LET year_we_are_interested_in ==
            IF Month(period) <= 2 THEN Year(period) - 1 ELSE Year(period)
        of_the_year == {o \in JanFebSells(dt_series) :
                           Year(o.period) = year_we_are_interested_in}
        subset == IF of_the_year # {} THEN of_the_year
                  ELSE JanFebSells(dt_series)
    IN  IF subset = {} THEN NaN
        ELSE SumOfValues(subset) \div Cardinality(subset)

\* The highest total of a day of the month, over the hours of that day that
\* have a sell.
calculate_peak_day_avg_cons_kw_of_recorded_hours(dt_series, year, month) ==
    LET heating_sells_this_month ==
            {o \in dt_series : /\ Year(o.period) = year
                               /\ Month(o.period) = month}
        days == {Day(o.period) : o \in heating_sells_this_month}
        of_day(d) == {o \in heating_sells_this_month : Day(o.period) = d}
        peak == CHOOSE d \in days :
                    \A o \in days :
                        SumOfValues(of_day(d)) >= SumOfValues(of_day(o))
    IN  IF days = {} THEN NaN
        ELSE SumOfValues(of_day(peak)) \div Cardinality(of_day(peak))

\* The highest total of a day of the month, over the hours of a day; not a
\* number when the month has no sell.
calculate_peak_day_avg_cons_kw(dt_series, year, month) ==
    LET heating_sells_this_month ==
            {o \in dt_series : /\ Year(o.period) = year
                               /\ Month(o.period) = month}
        days == {Day(o.period) : o \in heating_sells_this_month}
        sold_by_day ==
            [d \in days |->
                SumOfValues({o \in heating_sells_this_month :
                                Day(o.period) = d})]
        peak == CHOOSE d \in days :
                    \A o \in days : sold_by_day[d] >= sold_by_day[o]
    IN  IF days = {} THEN NaN ELSE sold_by_day[peak] \div 24

\* The day of the month of a period.
DayOfMonth(period) ==
    HourOfYear(period) \div 24 - DaysBefore[Month(period)] + 1

\* max(first, second) of Python: second when it is greater than first,
\* first otherwise, also when one of them is not a number.
PyMax(first, second) ==
    IF IsNaN(first) \/ IsNaN(second) THEN first
    ELSE IF second > first THEN second ELSE first

\* The average outtake of the peak day of the month of a period in the
\* sells registered for an agent so far, or of the month before if that is
\* higher and the month is less than five days old.
get_avg_peak_for_month(observations, period, agent) ==
    LET sells_series == get_sells(observations, "HIGH_TEMP_HEAT", agent)
        peak_this_month ==
            calculate_peak_day_avg_cons_kw(sells_series, Year(period),
                                           Month(period))
        at_least_n_days == 5
        prev_month == period - (at_least_n_days + 1) * 24
        peak_last_month ==
            calculate_peak_day_avg_cons_kw(sells_series, Year(prev_month),
                                           Month(prev_month))
        scaled_last_month ==
            IF IsNaN(peak_last_month) THEN NaN
            ELSE MulDiv(peak_last_month, 8, 10)
        avg_peak ==
            IF DayOfMonth(period) < at_least_n_days
            THEN PyMax(peak_this_month, scaled_last_month)
            ELSE peak_this_month
    IN  IF IsNaN(avg_peak) THEN 0 ELSE avg_peak

exact_effect_fee(monthly_peak_day_avg_consumption_kw) ==
    MulDiv(monthly_peak_day_avg_consumption_kw, area_info.HeatingEffectFee, 1000)

\* In 10^-3 SEK.
get_yearly_grid_fee(jan_feb_hourly_avg_consumption_kw) ==
    LET fee(fixed, marginal) ==
            fixed * 1000
            + MulDiv(jan_feb_hourly_avg_consumption_kw, marginal, 1000)
    IN  IF jan_feb_hourly_avg_consumption_kw < 50 * kWh THEN fee(1152, 1116)
        ELSE IF jan_feb_hourly_avg_consumption_kw < 100 * kWh
        THEN fee(3060, 1068)
        ELSE IF jan_feb_hourly_avg_consumption_kw < 200 * kWh
        THEN fee(8148, 1020)
        ELSE IF jan_feb_hourly_avg_consumption_kw < 400 * kWh
        THEN fee(18348, 972)
        ELSE fee(33696, 936)

get_grid_fee_for_month(jan_feb_hourly_avg_consumption_kw, month_of_year) ==
    MulDiv(get_yearly_grid_fee(jan_feb_hourly_avg_consumption_kw),
           get_days_in_month(month_of_year), 365) * 1000

exact_district_heating_price_for_month(month, consumption_this_month_kwh, jan_feb_avg_consumption_kw, prev_month_peak_day_avg_consumption_kw) ==
    LET effect_fee == exact_effect_fee(prev_month_peak_day_avg_consumption_kw)
        grid_fee == get_grid_fee_for_month(jan_feb_avg_consumption_kw, month)
        base_marginal_price == get_base_marginal_price(month)
    IN  MulDiv(consumption_this_month_kwh, base_marginal_price, 1000)
        + effect_fee + grid_fee

\* What the month costs an agent at the exact retail price, as a set: empty
\* when the price is not a number, which is when the agent bought nothing
\* that month or there is no data of January and February.
ExactHeatingCost(observations, month, agent) ==
    LET sells == get_sells(observations, "HIGH_TEMP_HEAT", agent)
        period == MonthStart(month)
        consumption_this_month_kwh ==
            calculate_consumption_this_month(sells, Year(period), month)
    IN  IF consumption_this_month_kwh = 0 THEN {}
        ELSE IF IsNaN(calculate_jan_feb_avg_heating_sold(sells, period))
        THEN {}
        ELSE {exact_district_heating_price_for_month(
                  month, consumption_this_month_kwh,
                  calculate_jan_feb_avg_heating_sold(sells, period),
                  calculate_peak_day_avg_cons_kw(sells, Year(period),
                                                 month))}

ExactElectricityCost(observations, month, agent) ==
    LET sells == {o \in get_sells(observations, "ELECTRICITY", agent) :
                     Month(o.period) = month}
        sold == [o \in sells |-> o.value]
        energy == SumOver(sells,
                      [o \in sells |->
                          MulDiv(o.value,
                                 nordpool_price(o.period)
                                 + area_info.ElectricityTransmissionFee
                                 + area_info.ElectricityTax, 1000)])
        avg_top3_peak == SumOfLargest(sells, sold, 3) \div 3
    IN  IF SumOfValues(sells) = 0 THEN {}
        ELSE {energy + MulDiv(avg_top3_peak, area_info.ElectricityEffectFee,
                              1000)}

EstimatedCost(trades, resource, month, agent) ==
    LET bought == {trade \in trades : /\ trade.source = agent
                                      /\ trade.action = "BUY"
                                      /\ trade.resource = resource
                                      /\ Month(trade.period) = month}
    IN  SumOver(bought, [trade \in bought |-> get_cost_of_trade(trade)])

ExtraCost(period, agent, cost_type, cost) ==
    [period |-> period, agent |-> agent, cost_type |-> cost_type,
     cost |-> cost]

\* One extra cost for each month and each agent that bought from the grid
\* that month: the difference between the exact and the estimated cost.
correct_for_exact_price(observations, trades, resource, cost_type) ==
    LET months == {Month(trading_periods[i]) : i \in 1 .. NumPeriods}
        exact(month, agent) ==
            IF resource = "ELECTRICITY"
            THEN ExactElectricityCost(observations, month, agent)
            ELSE ExactHeatingCost(observations, month, agent)
    IN  UNION {{ExtraCost(MonthStart(ma[1]), ma[2], cost_type,
                          cost - EstimatedCost(trades, resource, ma[1], ma[2])) :
                   cost \in exact(ma[1], ma[2])} :
               ma \in months \X Agents}

(***************************************************************************)
(* The simulation of a job: TradingSimulator.                              *)
(***************************************************************************)
\* The configurations: plain consumers, and a last block agent of any
\* profile.
Configs ==
    {c \in [Agents -> DriverProfiles] :
        \A a \in Agents : (a < NumAgents) => (c[a] = "consumer")}

number_of_trading_horizons == NumPeriods \div TradingHorizon

new_batch_size ==
    (number_of_trading_horizons + number_of_batches - 1) \div number_of_batches

\* trading_periods[::trading_horizon]
trading_horizon_start_points ==
    [k \in 1 .. ((NumPeriods + TradingHorizon - 1) \div TradingHorizon) |->
        trading_periods[(k - 1) * TradingHorizon + 1]]

Database == [job |-> job, trades |-> db_trades, levels |-> db_levels,
             extra_costs |-> db_extra_costs]

WriteDatabase(db) ==
    /\ job' = db.job
    /\ db_trades' = db.trades
    /\ db_levels' = db.levels
    /\ db_extra_costs' = db.extra_costs

\* A variant of the except clauses that handles every error as the last
\* clause does.
HandleExceptionAlike(db, e) == delete_job(db, FALSE)

\* A variant of the except clauses whose last clause keeps the job row.
HandleExceptionKeeping(db, e) ==
    IF e.type = "InfeasibilityError"
    THEN delete_job(set_error_info(db, e), TRUE)
    ELSE delete_job(db, TRUE)

\* The except clauses of __call__: what is left of the job after run has
\* raised e.
HandleException(db, e) ==
    IF e.type = "InfeasibilityError"
    THEN delete_job(set_error_info(db, e), TRUE)
    ELSE delete_job(db, FALSE)

\* Where __call__ ends after run has raised e.
EndOf(e) == IF e.type = "InfeasibilityError" THEN "failed" ELSE "deleted"

Init ==
    /\ config \in [block_agents : Configs, has_grid_agent : BOOLEAN]
    /\ pc = "created"
    /\ job = [NoJob EXCEPT !.exists = TRUE]
    /\ stop_event = FALSE
    /\ batch_number = 0
    /\ thsps_in_this_batch = <<>>
    /\ all_trades_list_batch = {}
    /\ storage_levels_batch = {}
    /\ shallow_storage_end = <<>>
    /\ deep_storage_end = <<>>
    /\ db_trades = {}
    /\ db_levels = {}
    /\ db_extra_costs = {}
    /\ price_models = {}
    /\ last_horizon = <<>>
    /\ optimized = <<>>
    /\ raised = NoError
    /\ solved = <<>>
    /\ all_data_sets = <<>>
    /\ mock_runs = <<>>
    /\ table_config = <<>>
    /\ table_agent = <<>>
    /\ table_job = {}
    /\ returned = <<>>
    /\ session_state = <<>>

\* A variant of __call__ whose agents are not looked at.
CallWithoutGridAgentCheck ==
    /\ pc = "created"
    /\ WriteDatabase(update_job_with_time(Database, "start_time"))
    /\ pc' = "batch_top"
    /\ raised' = NoError
    /\ UNCHANGED <<config, all_data_sets, mock_runs, table_config, table_agent,
                   table_job, returned, session_state, stop_event, batch_number, thsps_in_this_batch,
                   all_trades_list_batch, storage_levels_batch,
                   shallow_storage_end, deep_storage_end, price_models,
                   last_horizon, optimized, solved>>

\* __call__ up to the first batch: the start time, the data and the agents.
Call ==
    /\ pc = "created"
    /\ IF config.has_grid_agent
       THEN /\ WriteDatabase(update_job_with_time(Database, "start_time"))
            /\ pc' = "batch_top"
            /\ raised' = NoError
       ELSE /\ WriteDatabase(HandleException(
                   update_job_with_time(Database, "start_time"),
                   RuntimeError("No grid agent initialized")))
            /\ pc' = EndOf(RuntimeError("No grid agent initialized"))
            /\ raised' = RuntimeError("No grid agent initialized")
    /\ UNCHANGED <<config, all_data_sets, mock_runs, table_config, table_agent,
                   table_job, returned, session_state, stop_event, batch_number, thsps_in_this_batch,
                   all_trades_list_batch, storage_levels_batch,
                   shallow_storage_end, deep_storage_end, price_models,
                   last_horizon, optimized, solved>>

\* A variant of the top of the loop that does not look at the stop flag.
BatchTopWithoutPoll ==
    /\ pc = "batch_top"
    /\ thsps_in_this_batch' =
           SubSeq(trading_horizon_start_points,
                  batch_number * new_batch_size + 1,
                  Min((batch_number + 1) * new_batch_size,
                      number_of_trading_horizons))
    /\ all_trades_list_batch' = {}
    /\ storage_levels_batch' = {}
    /\ pc' = "in_batch"
    /\ UNCHANGED <<job, db_trades, db_levels, db_extra_costs, raised, config, all_data_sets, mock_runs, table_config, table_agent,
                   table_job, returned, session_state,
                   stop_event, batch_number, shallow_storage_end,
                   deep_storage_end, price_models, last_horizon, optimized,
                   solved>>

\* The top of the loop over the batches: the stop flag is looked at, and
\* the horizons of the batch are laid out.
BatchTop ==
    /\ pc = "batch_top"
    /\ IF stop_event
       THEN /\ WriteDatabase(HandleException(
                   Database, Exception("Simulation stopped by event.")))
            /\ pc' = EndOf(Exception("Simulation stopped by event."))
            /\ raised' = Exception("Simulation stopped by event.")
            /\ UNCHANGED <<thsps_in_this_batch, all_trades_list_batch,
                           storage_levels_batch>>
       ELSE /\ thsps_in_this_batch' =
                   SubSeq(trading_horizon_start_points,
                          batch_number * new_batch_size + 1,
                          Min((batch_number + 1) * new_batch_size,
                              number_of_trading_horizons))
            /\ all_trades_list_batch' = {}
            /\ storage_levels_batch' = {}
            /\ pc' = "in_batch"
            /\ UNCHANGED <<job, db_trades, db_levels, db_extra_costs, raised>>
    /\ UNCHANGED <<config, all_data_sets, mock_runs, table_config, table_agent,
                   table_job, returned, session_state, stop_event, batch_number, shallow_storage_end,
                   deep_storage_end, price_models, last_horizon, optimized,
                   solved>>

\* The agents whose model optimize has set up before it returned or raised:
\* all of them, or those up to the one whose demand check or solve failed.
AgentsReached(chalmers_outputs) ==
    IF chalmers_outputs.kind = "returned" THEN Agents
    ELSE IF chalmers_outputs.handled = NoError
    THEN 1 .. (Len(chalmers_outputs.termination_conditions) + 1)
    ELSE 1 .. Len(chalmers_outputs.termination_conditions)

\* One horizon of the batch: optimize, with the historic peak of heating
\* that it reads from the price model for each agent, then the carry-over
\* of the building storage, or the handler of __call__ for the error that
\* optimize raised.
OptimizeHorizon ==
    /\ pc = "in_batch"
    /\ thsps_in_this_batch # <<>>
    /\ LET horizon_start == Head(thsps_in_this_batch)
       IN  \E call \in optimize(config.block_agents, horizon_start,
                                shallow_storage_end, deep_storage_end) :
             LET chalmers_outputs == call.outcome
             IN  /\ optimized' = Append(optimized,
                        [horizon_start |-> horizon_start,
                         stop_event |-> stop_event])
                 /\ last_horizon' =
                        [horizon_start |-> horizon_start,
                         shallow_storage_start |-> call.shallow_storage_start,
                         deep_storage_start |-> call.deep_storage_start,
                         termination_conditions |->
                             chalmers_outputs.termination_conditions,
                         handled |-> chalmers_outputs.handled,
                         hist_monthly_heat_peak_energy |->
                             [agent \in AgentsReached(chalmers_outputs) |->
                                 get_avg_peak_for_month(
                                     price_models, horizon_start, agent)]]
                 /\ price_models' =
                        price_models \cup chalmers_outputs.price_models
                 /\ raised' = chalmers_outputs.error
                 /\ CASE chalmers_outputs.kind = "returned" ->
                           /\ all_trades_list_batch' =
                                  all_trades_list_batch
                                  \cup chalmers_outputs.trades
                           /\ storage_levels_batch' =
                                  storage_levels_batch
                                  \cup chalmers_outputs.metadata
                           /\ shallow_storage_end' =
                                  get_final_storage_level(
                                      TradingHorizon, chalmers_outputs.metadata,
                                      "SHALLOW_STORAGE_ABS", horizon_start)
                           /\ deep_storage_end' =
                                  get_final_storage_level(
                                      TradingHorizon, chalmers_outputs.metadata,
                                      "DEEP_STORAGE_ABS", horizon_start)
                           /\ thsps_in_this_batch' = Tail(thsps_in_this_batch)
                           /\ UNCHANGED <<pc, job, db_trades, db_levels,
                                          db_extra_costs>>
                      [] OTHER ->
                           /\ WriteDatabase(HandleException(
                                  Database, chalmers_outputs.error))
                           /\ pc' = EndOf(chalmers_outputs.error)
                           /\ UNCHANGED <<all_trades_list_batch,
                                          storage_levels_batch,
                                          shallow_storage_end,
                                          deep_storage_end,
                                          thsps_in_this_batch>>
    /\ UNCHANGED <<config, all_data_sets, mock_runs, table_config, table_agent,
                   table_job, returned, session_state, stop_event, batch_number, solved>>

\* A variant of the end of a batch that goes on to the exact prices after
\* any batch.
SaveBatchThenReconcile ==
    /\ pc = "in_batch"
    /\ thsps_in_this_batch = <<>>
    /\ db_trades' = bulk_insert(db_trades, all_trades_list_batch)
    /\ db_levels' = bulk_insert(db_levels, storage_levels_batch)
    /\ batch_number' = batch_number + 1
    /\ pc' = "extract_resource_prices"
    /\ UNCHANGED <<config, all_data_sets, mock_runs, table_config, table_agent,
                   table_job, returned, session_state, job, stop_event, thsps_in_this_batch,
                   all_trades_list_batch, storage_levels_batch,
                   shallow_storage_end, deep_storage_end, db_extra_costs,
                   price_models, last_horizon, optimized, raised, solved>>

\* The end of a batch: its trades and levels are saved.
SaveBatch ==
    /\ pc = "in_batch"
    /\ thsps_in_this_batch = <<>>
    /\ db_trades' = bulk_insert(db_trades, all_trades_list_batch)
    /\ db_levels' = bulk_insert(db_levels, storage_levels_batch)
    /\ batch_number' = batch_number + 1
    /\ pc' = IF batch_number + 1 < number_of_batches THEN "batch_top"
             ELSE "extract_resource_prices"
    /\ UNCHANGED <<config, all_data_sets, mock_runs, table_config, table_agent,
                   table_job, returned, session_state, job, stop_event, thsps_in_this_batch,
                   all_trades_list_batch, storage_levels_batch,
                   shallow_storage_end, deep_storage_end, db_extra_costs,
                   price_models, last_horizon, optimized, raised, solved>>

\* After the last batch: the exact prices and the extra costs, then the
\* end time.
extract_resource_prices ==
    /\ pc = "extract_resource_prices"
    /\ LET heat_cost_discrepancy_corrections ==
               correct_for_exact_price(price_models, db_trades,
                                       "HIGH_TEMP_HEAT", "HEAT_EXT_COST_CORR")
           elec_cost_discrepancy_corrections ==
               correct_for_exact_price(price_models, db_trades,
                                       "ELECTRICITY", "ELEC_EXT_COST_CORR")
       IN  db_extra_costs' =
               bulk_insert(db_extra_costs,
                           heat_cost_discrepancy_corrections
                           \cup elec_cost_discrepancy_corrections)
    /\ job' = update_job_with_time(Database, "end_time").job
    /\ pc' = "completed"
    /\ UNCHANGED <<config, all_data_sets, mock_runs, table_config, table_agent,
                   table_job, returned, session_state, stop_event, batch_number, thsps_in_this_batch,
                   all_trades_list_batch, storage_levels_batch,
                   shallow_storage_end, deep_storage_end, db_trades,
                   db_levels, price_models, last_horizon, optimized, raised,
                   solved>>

\* Another thread stops the StoppableThread that runs the simulation.
Stop ==
    /\ pc \in {"batch_top", "in_batch"}
    /\ ~stop_event
    /\ stop_event' = TRUE
    /\ UNCHANGED <<config, all_data_sets, mock_runs, table_config, table_agent,
                   table_job, returned, session_state, pc, job, batch_number, thsps_in_this_batch,
                   all_trades_list_batch, storage_levels_batch,
                   shallow_storage_end, deep_storage_end, db_trades,
                   db_levels, db_extra_costs, price_models, last_horizon,
                   optimized, raised, solved>>

Next ==
    \/ Call
    \/ BatchTop
    \/ OptimizeHorizon
    \/ SaveBatch
    \/ extract_resource_prices
    \/ Stop

Spec == Init /\ [][Next]_vars


(***************************************************************************)
(* The horizons of one agent, solved one after the other: each model       *)
(* starts from the building storage the horizon before it has ended with.  *)
(* solved holds the horizon solved last and its number.                    *)
(***************************************************************************)
SolveInit ==
    /\ config \in [block_agents : {[a \in Agents |-> profile] :
                                      profile \in SolverProfiles},
                   has_grid_agent : {TRUE}]
    /\ pc = "solving"
    /\ job = [NoJob EXCEPT !.exists = TRUE]
    /\ stop_event = FALSE
    /\ batch_number = 0
    /\ thsps_in_this_batch = <<>>
    /\ all_trades_list_batch = {}
    /\ storage_levels_batch = {}
    /\ shallow_storage_end = <<>>
    /\ deep_storage_end = <<>>
    /\ db_trades = {}
    /\ db_levels = {}
    /\ db_extra_costs = {}
    /\ price_models = {}
    /\ last_horizon = <<>>
    /\ optimized = <<>>
    /\ raised = NoError
    /\ solved = <<>>
    /\ all_data_sets = <<>>
    /\ mock_runs = <<>>
    /\ table_config = <<>>
    /\ table_agent = <<>>
    /\ table_job = {}
    /\ returned = <<>>
    /\ session_state = <<>>

\* solve_model for the first agent, and the carry-over of its building
\* storage.
Solve ==
    /\ pc = "solving"
    /\ \A h \in DOMAIN solved : solved[h].number < MaxSolves
    /\ \E start_datetime \in {0, summer_block_offset} :
         \E model \in {ModelOf(config.block_agents[1], start_datetime,
                               IF 1 \in DOMAIN shallow_storage_end
                               THEN shallow_storage_end[1] ELSE 0,
                               IF 1 \in DOMAIN shallow_storage_end
                               THEN deep_storage_end[1] ELSE 0)} :
           \E results \in solve(model, SolverGrid(config.block_agents[1])) :
             \E out \in {extract_outputs_for_agent(model, results.s,
                                                   start_datetime, 1)} :
               /\ results.termination_condition = "optimal"
               /\ solved' = <<[number |-> IF solved = <<>> THEN 1
                                          ELSE solved[1].number + 1,
                               start_datetime |-> start_datetime,
                               model |-> model,
                               s |-> results.s,
                               trades |-> out.trades]>>
               /\ shallow_storage_end' =
                      get_final_storage_level(TradingHorizon, out.metadata,
                                              "SHALLOW_STORAGE_ABS",
                                              start_datetime)
               /\ deep_storage_end' =
                      get_final_storage_level(TradingHorizon, out.metadata,
                                              "DEEP_STORAGE_ABS",
                                              start_datetime)
    /\ UNCHANGED <<config, all_data_sets, mock_runs, table_config, table_agent,
                   table_job, returned, session_state, pc, job, stop_event, batch_number,
                   thsps_in_this_batch, all_trades_list_batch,
                   storage_levels_batch, db_trades, db_levels, db_extra_costs,
                   price_models, last_horizon, optimized, raised>>

SolveNext == Solve

SolveSpec == SolveInit /\ [][SolveNext]_vars


(***************************************************************************)
(* The correction of the heating costs of a local market for the exact     *)
(* price of the month.  The trades of a period are those of the block      *)
(* agents and at most one of the grid agent; what the exact price adds to  *)
(* or takes from the cost of the grid agent's trade is shared among the    *)
(* agents on the other side of it, by quantity.                            *)
(***************************************************************************)
\* A trade of the local market: one quantity, no loss.
MarketTrade(action, resource, quantity, price, source, by_external, market, period) ==
    [action |-> action, resource |-> resource, quantity |-> quantity,
     price |-> price, source |-> source, by_external |-> by_external,
     market |-> market, period |-> period]

\* A variant of the correction that shares the debt evenly among the agents
\* that bought.
correct_for_exact_heating_price_evenly(periods, all_trades, exact_retail, exact_wholesale, estimated_retail, estimated_wholesale) ==
    UNION {LET heating_trades ==
                   {x \in all_trades : /\ x.period = period
                                       /\ x.resource = "HEATING"}
               internal_buy_trades ==
                   {x \in heating_trades : (~x.by_external)
                                           /\ (x.action = "BUY")}
           IN  UNION {{ExtraCost(period, internal_trade.source,
                                 "HEAT_EXT_COST_CORR",
                                 MulDiv(exact_retail[Month(period)]
                                          - estimated_retail[Month(period)],
                                        external_trade.quantity, 1000)
                                 \div Cardinality(internal_buy_trades)) :
                          internal_trade \in internal_buy_trades} :
                      external_trade \in {x \in heating_trades : x.by_external}} :
           period \in periods}

correct_for_exact_heating_price(periods, all_trades, exact_retail, exact_wholesale, estimated_retail, estimated_wholesale) ==
    LET shares(period, total_debt, internal_trades) ==
            {ExtraCost(period, internal_trade.source, "HEAT_EXT_COST_CORR",
                       MulDiv(total_debt, internal_trade.quantity,
                              SumOfQuantities(internal_trades))) :
                internal_trade \in internal_trades}
        of(period, heating_trades, external_trade) ==
            IF external_trade.action = "SELL"
            THEN shares(period,
                        MulDiv(exact_retail[Month(period)]
                                 - estimated_retail[Month(period)],
                               external_trade.quantity, 1000),
                        {x \in heating_trades : (~x.by_external)
                                                /\ (x.action = "BUY")})
            ELSE shares(period,
                        MulDiv(estimated_wholesale[Month(period)]
                                 - exact_wholesale[Month(period)],
                               external_trade.quantity, 1000),
                        {x \in heating_trades : (~x.by_external)
                                                /\ (x.action = "SELL")})
    IN  UNION {LET heating_trades ==
                       {x \in all_trades : /\ x.period = period
                                           /\ x.resource = "HEATING"}
               IN  UNION {of(period, heating_trades, external_trade) :
                             external_trade \in
                                 {x \in heating_trades : x.by_external}} :
               period \in periods}

\* The periods, the trades and the prices the correction is applied to.
ReconcilePeriods == {0, 1}

\* The trades a period may hold: the grid sells to two buyers, with or
\* without a local producer; the grid buys from two sellers; or there is no
\* trade with the grid.
TradesOfPeriod(period) ==
    LET heat(action, quantity, price, source, by_external) ==
            MarketTrade(action, "HEATING", quantity, price, source,
                        by_external, "LOCAL", period)
        grid_sells(first, second, produced) ==
            {heat("SELL", first + second - produced, 500, "Grid", TRUE),
             heat("BUY", first, 500, "Buyer1", FALSE),
             heat("BUY", second, 500, "Buyer2", FALSE)}
            \cup (IF produced > 0
                  THEN {heat("SELL", produced, 500, "Seller", FALSE)}
                  ELSE {})
        grid_buys(first, second) ==
            {heat("BUY", first + second, 500, "Grid", TRUE),
             heat("SELL", first, 500, "Seller1", FALSE),
             heat("SELL", second, 500, "Seller2", FALSE)}
    IN  {grid_sells(6 * kWh, 4 * kWh, 0),
         grid_sells(9 * kWh, 3 * kWh, 2 * kWh),
         grid_sells(1 * kWh, 2 * kWh, 0),
         grid_buys(6 * kWh, 4 * kWh),
         grid_buys(1 * kWh, 2 * kWh),
         {heat("BUY", 5 * kWh, 500, "Buyer1", FALSE),
          heat("SELL", 5 * kWh, 500, "Seller", FALSE)}}

ReconcileInit ==
    /\ config = [block_agents |-> <<>>, has_grid_agent |-> TRUE]
    /\ pc = "reconciling"
    /\ job = [NoJob EXCEPT !.exists = TRUE]
    /\ stop_event = FALSE
    /\ batch_number = 0
    /\ thsps_in_this_batch = <<>>
    /\ all_trades_list_batch = {}
    /\ storage_levels_batch = {}
    /\ shallow_storage_end = <<>>
    /\ deep_storage_end = <<>>
    /\ \E first \in TradesOfPeriod(0) :
          \E second \in TradesOfPeriod(1) : db_trades = first \cup second
    /\ db_levels = {}
    /\ db_extra_costs = {}
    /\ \E exact_retail \in {250, 500, 750} :
          \E exact_wholesale \in {250, 750} :
              price_models =
                  {PriceObservation("exact_retail", "HEATING", 0, "Grid",
                                    exact_retail),
                   PriceObservation("exact_wholesale", "HEATING", 0, "Grid",
                                    exact_wholesale),
                   PriceObservation("estimated_retail", "HEATING", 0, "Grid",
                                    500),
                   PriceObservation("estimated_wholesale", "HEATING", 0,
                                    "Grid", 500)}
    /\ last_horizon = <<>>
    /\ optimized = <<>>
    /\ raised = NoError
    /\ solved = <<>>
    /\ all_data_sets = <<>>
    /\ mock_runs = <<>>
    /\ table_config = <<>>
    /\ table_agent = <<>>
    /\ table_job = {}
    /\ returned = <<>>
    /\ session_state = <<>>

\* The price of a kind for the month of the periods.
PriceByMonth(kind) ==
    [month \in {Month(period) : period \in ReconcilePeriods} |->
        (CHOOSE o \in price_models : o.kind = kind).value]

Reconcile ==
    /\ pc = "reconciling"
    /\ db_extra_costs' =
           correct_for_exact_heating_price(
               ReconcilePeriods, db_trades,
               PriceByMonth("exact_retail"), PriceByMonth("exact_wholesale"),
               PriceByMonth("estimated_retail"),
               PriceByMonth("estimated_wholesale"))
    /\ pc' = "reconciled"
    /\ UNCHANGED <<config, all_data_sets, mock_runs, table_config, table_agent,
                   table_job, returned, session_state, job, stop_event, batch_number,
                   thsps_in_this_batch, all_trades_list_batch,
                   storage_levels_batch, shallow_storage_end,
                   deep_storage_end, db_trades, db_levels, price_models,
                   last_horizon, optimized, raised, solved>>

ReconcileNext == Reconcile

ReconcileSpec == ReconcileInit /\ [][ReconcileNext]_vars


(***************************************************************************)
(* The exact heating prices of a register of external sells, on their own. *)
(* The register is price_models; the prices asked for last are in solved.  *)
(* Prices are in 10^-3 SEK per kWh.                                        *)
(***************************************************************************)
handle_no_consumption_when_calculating_heating_price(period) == NaN

\* The exact retail price with a month without consumption priced at zero.
get_exact_retail_price_zero_when_no_consumption(observations, period, agent) ==
    LET sells_series == get_sells(observations, "HIGH_TEMP_HEAT", agent)
        consumption_this_month_kwh ==
            calculate_consumption_this_month(sells_series, Year(period),
                                             Month(period))
        jan_feb_avg_consumption_kw ==
            calculate_jan_feb_avg_heating_sold(sells_series, period)
    IN  IF consumption_this_month_kwh = 0 THEN 0
        ELSE IF IsNaN(jan_feb_avg_consumption_kw) THEN NaN
        ELSE MulDiv(exact_district_heating_price_for_month(
                        Month(period), consumption_this_month_kwh,
                        jan_feb_avg_consumption_kw,
                        calculate_peak_day_avg_cons_kw(
                            sells_series, Year(period), Month(period))),
                    1000, consumption_this_month_kwh)

get_exact_retail_price(observations, period, agent) ==
    LET sells_series == get_sells(observations, "HIGH_TEMP_HEAT", agent)
        consumption_this_month_kwh ==
            calculate_consumption_this_month(sells_series, Year(period),
                                             Month(period))
        jan_feb_avg_consumption_kw ==
            calculate_jan_feb_avg_heating_sold(sells_series, period)
        prev_month_peak_day_avg_consumption_kw ==
            calculate_peak_day_avg_cons_kw(sells_series, Year(period),
                                           Month(period))
    IN  IF consumption_this_month_kwh = 0
        THEN handle_no_consumption_when_calculating_heating_price(period)
        ELSE IF IsNaN(jan_feb_avg_consumption_kw)
        THEN NaN
        ELSE MulDiv(exact_district_heating_price_for_month(
                        Month(period), consumption_this_month_kwh,
                        jan_feb_avg_consumption_kw,
                        prev_month_peak_day_avg_consumption_kw),
                    1000, consumption_this_month_kwh)

get_exact_wholesale_price(observations, period, agent) ==
    LET retail == get_exact_retail_price(observations, period, agent)
    IN  IF IsNaN(retail) THEN NaN
        ELSE MulDiv(retail, area_info.ExternalHeatingWholesalePriceFraction,
                    100)

\* The hours a sell can be registered at: two hours of 1 February and one
\* of 2 February of the first year, one of 14 July of the first year, one
\* of 1 January and one of 1 February of the second year.
SellPeriods == {0, 1, 24, summer_block_offset, 334 * 24, 365 * 24}

SellValues == {0, (12 * kWh) \div 10, (48 * kWh) \div 10}

\* The hours the prices are asked for: of February and July of the first
\* year and of the second year.
QueryPeriods ==
    {2, summer_block_offset + 1, 365 * 24 + 1,
     365 * 24 + summer_block_offset}

PriceInit ==
    /\ config = [block_agents |-> <<>>, has_grid_agent |-> TRUE]
    /\ pc = "pricing"
    /\ job = NoJob
    /\ stop_event = FALSE
    /\ batch_number = 0
    /\ thsps_in_this_batch = <<>>
    /\ all_trades_list_batch = {}
    /\ storage_levels_batch = {}
    /\ shallow_storage_end = <<>>
    /\ deep_storage_end = <<>>
    /\ db_trades = {}
    /\ db_levels = {}
    /\ db_extra_costs = {}
    /\ price_models = {}
    /\ last_horizon = <<>>
    /\ optimized = <<>>
    /\ raised = NoError
    /\ solved = <<>>
    /\ all_data_sets = <<>>
    /\ mock_runs = <<>>
    /\ table_config = <<>>
    /\ table_agent = <<>>
    /\ table_job = {}
    /\ returned = <<>>
    /\ session_state = <<>>

\* A sell of the external grid is registered at an hour that has none.
add_external_sell ==
    /\ pc = "pricing"
    /\ \E period \in SellPeriods :
          \E external_heating_sell_quantity \in SellValues :
              /\ \A o \in price_models : o.period # period
              /\ price_models' =
                     price_models
                     \cup {PriceObservation(
                               "external_sell_for_agent", "HIGH_TEMP_HEAT",
                               period, "None",
                               external_heating_sell_quantity)}
    /\ UNCHANGED <<config, all_data_sets, mock_runs, table_config, table_agent,
                   table_job, returned, session_state, pc, job, stop_event, batch_number,
                   thsps_in_this_batch, all_trades_list_batch,
                   storage_levels_batch, shallow_storage_end,
                   deep_storage_end, db_trades, db_levels, db_extra_costs,
                   last_horizon, optimized, raised, solved>>

\* The exact prices of the month of a period, and what they are made of,
\* are asked for.
GetExactPrices ==
    /\ pc = "pricing"
    /\ \E period \in QueryPeriods :
          LET sells_series == get_sells(price_models, "HIGH_TEMP_HEAT",
                                        "None")
          IN  solved' =
                  <<[period |-> period,
                     jan_feb_avg_consumption_kw |->
                         calculate_jan_feb_avg_heating_sold(sells_series,
                                                            period),
                     peak_day_avg_consumption_kw |->
                         calculate_peak_day_avg_cons_kw(
                             sells_series, Year(period), Month(period)),
                     exact_retail_price |->
                         get_exact_retail_price(price_models, period,
                                                "None"),
                     exact_wholesale_price |->
                         get_exact_wholesale_price(price_models, period,
                                                   "None")]>>
    /\ pc' = "priced"
    /\ UNCHANGED <<config, all_data_sets, mock_runs, table_config, table_agent,
                   table_job, returned, session_state, job, stop_event, batch_number,
                   thsps_in_this_batch, all_trades_list_batch,
                   storage_levels_batch, shallow_storage_end,
                   deep_storage_end, db_trades, db_levels, db_extra_costs,
                   price_models, last_horizon, optimized, raised>>

PriceNext == add_external_sell \/ GetExactPrices

PriceSpec == PriceInit /\ [][PriceNext]_vars


(***************************************************************************)
(* The generation of the mock data.  A data set is a table of series by    *)
(* column name; a series is what a generator draws from a seed for a floor *)
(* area, or what the irradiation gives for an area of panels.              *)
(***************************************************************************)
RESIDENTIAL_HEATING_SEED_SUFFIX == "RH"

COMMERCIAL_ELECTRICITY_SEED_SUFFIX == "CE"

COMMERCIAL_HEATING_SEED_SUFFIX == "CH"

SCHOOL_HEATING_SEED_SUFFIX == "SH"

SCHOOL_ELECTRICITY_SEED_SUFFIX == "SE"

\* The SHA-256 digests of the strings that are hashed, as sixteen words of
\* 16 bits, the most significant first.
sha256 ==
    "A" :> <<21914, 60112, 33380, 54649, 23865, 2417, 36061, 1451,
             54421, 29416, 20453, 21904, 61171, 6792, 41103, 57341>> @@
    "ARH" :> <<65175, 40257, 28265, 11072, 10713, 40475, 36319, 37743,
               25253, 27115, 62706, 23523, 10903, 14566, 20647, 26399>> @@
    "ACE" :> <<48384, 27458, 47921, 52077, 51558, 16367, 59853, 13320,
               6452, 3641, 22276, 48109, 28174, 32779, 44886, 38831>> @@
    "ACH" :> <<64749, 915, 40229, 47495, 40786, 25023, 39963, 36874,
               7901, 43906, 45269, 1223, 47199, 26107, 21165, 29443>> @@
    "ASE" :> <<61235, 26474, 59045, 28388, 34378, 32322, 27850, 22870,
               56375, 8904, 9293, 51023, 50673, 49897, 62088, 28976>> @@
    "ASH" :> <<57861, 46795, 30536, 18770, 8358, 4084, 527, 51311,
               51380, 4008, 7295, 28035, 34748, 50724, 30737, 13151>> @@
    "B" :> <<57214, 28901, 533, 17652, 33611, 48870, 19102, 14217,
             65212, 19432, 5232, 57186, 40109, 28123, 818, 2652>> @@
    "BRH" :> <<52335, 19618, 37350, 1712, 26307, 46844, 38535, 39231,
               56227, 26242, 1950, 11876, 60408, 5459, 37838, 24173>> @@
    "BCE" :> <<7967, 32710, 35269, 58021, 16146, 7098, 2765, 24933,
               29890, 47858, 42221, 27118, 31852, 12500, 23558, 55434>> @@
    "BCH" :> <<21540, 52104, 7778, 34123, 13229, 35641, 3549, 45573,
               36933, 26808, 7387, 49034, 2164, 51115, 56757, 38806>> @@
    "BSE" :> <<42054, 5872, 24308, 63060, 23881, 60674, 16051, 51619,
               64582, 14557, 43932, 1805, 59727, 62997, 32861, 42886>> @@
    "BSH" :> <<17734, 61662, 64067, 58045, 53564, 64258, 4564, 60423,
               35984, 32421, 2472, 19240, 26231, 49856, 5320, 17068>>

\* The lowest 32 bits of the digest, as two words of 16 bits.
calculate_seed_from_string(some_string) == SubSeq(sha256[some_string], 15, 16)

BuildingAgent(name, gross_floor_area, pv_area) ==
    [Name |-> name, GrossFloorArea |-> gross_floor_area, PVArea |-> pv_area]

\* The building agents a configuration can have.
MockAgents ==
    {BuildingAgent("A", 100, 0), BuildingAgent("A", 200, 10),
     BuildingAgent("B", 100, 10), BuildingAgent("B", 100, 0)}

\* The configurations: one agent, or two agents of different names.
MockConfigs ==
    {building_agents \in SUBSET MockAgents :
        /\ building_agents # {}
        /\ \A a, b \in building_agents : (a.Name = b.Name) => (a = b)}

DefaultPVEfficiency == 165

MockDataKey(building_agents_frozen_set, default_pv_efficiency) ==
    [building_agents_frozen_set |-> building_agents_frozen_set,
     default_pv_efficiency |-> default_pv_efficiency]

get_elec_cons_key(name) == name \o "_elec_cons"

get_space_heat_cons_key(name) == name \o "_space_heat_cons"

get_hot_tap_water_cons_key(name) == name \o "_hot_tap_water_cons"

get_pv_prod_key(name) == name \o "_pv_prod"

\* What a generator draws from a seed for a floor area; zeros for no area.
Simulated(kind, gross_floor_area_m2, random_seed) ==
    IF gross_floor_area_m2 = 0 THEN [kind |-> "zeros"]
    ELSE [kind |-> kind, gross_floor_area_m2 |-> gross_floor_area_m2,
          random_seed |-> random_seed]

calculate_solar_prod(pv_area, pv_efficiency) ==
    [kind |-> "solar_prod", pv_area |-> pv_area,
     pv_efficiency |-> pv_efficiency]

\* The agents of the stored data sets, each with the key of its data set.
AgentsOfDataSets(data_sets) ==
    {o \in (DOMAIN data_sets) \X MockAgents :
        o[2] \in o[1].building_agents_frozen_set}

\* The production of an agent taken from the table of another, under the
\* name of the agent.
ReusedProd(data_sets, found, agent_dict) ==
    IF found = {} THEN <<>>
    ELSE LET o == CHOOSE o \in found : TRUE
         IN  get_pv_prod_key(agent_dict.Name)
                 :> data_sets[o[1]][get_pv_prod_key(o[2].Name)]

\* The consumption of an agent taken from the table of another, under the
\* name of the agent.
ReusedCons(data_sets, found, agent_dict) ==
    IF found = {} THEN <<>>
    ELSE LET o == CHOOSE o \in found : TRUE
         IN  (get_elec_cons_key(agent_dict.Name)
                  :> data_sets[o[1]][get_elec_cons_key(o[2].Name)])
             @@ (get_space_heat_cons_key(agent_dict.Name)
                  :> data_sets[o[1]][get_space_heat_cons_key(o[2].Name)])
             @@ (get_hot_tap_water_cons_key(agent_dict.Name)
                  :> data_sets[o[1]][get_hot_tap_water_cons_key(o[2].Name)])

\* A variant of the search that takes the consumption of an agent of the
\* same name whatever its floor area.
find_agent_in_other_data_sets_by_name(agent_dict, data_sets, default_pv_efficiency) ==
    LET with_prod == {o \in AgentsOfDataSets(data_sets) :
                         /\ agent_dict.PVArea = o[2].PVArea
                         /\ default_pv_efficiency
                                = o[1].default_pv_efficiency}
        with_cons == {o \in AgentsOfDataSets(data_sets) :
                         agent_dict.Name = o[2].Name}
    IN  ReusedProd(data_sets, with_prod, agent_dict)
        @@ ReusedCons(data_sets, with_cons, agent_dict)

\* The series of an agent found in the stored data sets: the production of
\* an agent with the same panels, the consumption of an agent of the same
\* name and floor area.
find_agent_in_other_data_sets(agent_dict, data_sets, default_pv_efficiency) ==
    LET with_prod == {o \in AgentsOfDataSets(data_sets) :
                         /\ agent_dict.PVArea = o[2].PVArea
                         /\ default_pv_efficiency
                                = o[1].default_pv_efficiency}
        with_cons == {o \in AgentsOfDataSets(data_sets) :
                         /\ agent_dict.Name = o[2].Name
                         /\ agent_dict.GrossFloorArea = o[2].GrossFloorArea}
    IN  ReusedProd(data_sets, with_prod, agent_dict)
        @@ ReusedCons(data_sets, with_cons, agent_dict)

\* The table with the series of an agent added: those found in the stored
\* data sets, and those that are not found generated.  The agents have no
\* commercial and no school area.
simulate_and_add_to_output_df(agent, default_pv_efficiency, output_per_actor, data_sets) ==
    LET pre_existing_data ==
            find_agent_in_other_data_sets(agent, data_sets,
                                          default_pv_efficiency)
        with_existing == output_per_actor @@ pre_existing_data
        seed_residential_electricity == calculate_seed_from_string(agent.Name)
        seed_residential_heating ==
            calculate_seed_from_string(
                agent.Name \o RESIDENTIAL_HEATING_SEED_SUFFIX)
        seed_commercial_electricity ==
            calculate_seed_from_string(
                agent.Name \o COMMERCIAL_ELECTRICITY_SEED_SUFFIX)
        seed_commercial_heating ==
            calculate_seed_from_string(
                agent.Name \o COMMERCIAL_HEATING_SEED_SUFFIX)
        seed_school_electricity ==
            calculate_seed_from_string(
                agent.Name \o SCHOOL_ELECTRICITY_SEED_SUFFIX)
        seed_school_heating ==
            calculate_seed_from_string(
                agent.Name \o SCHOOL_HEATING_SEED_SUFFIX)
        residential_gross_floor_area == agent.GrossFloorArea
        sum_of(household, commercial, school) ==
            [residential |-> household, commercial |-> commercial,
             school |-> school]
        cons_data ==
            (get_elec_cons_key(agent.Name) :>
                sum_of(Simulated("household_electricity",
                                 residential_gross_floor_area,
                                 seed_residential_electricity),
                       Simulated("area_electricity", 0,
                                 seed_commercial_electricity),
                       Simulated("area_electricity", 0,
                                 seed_school_electricity)))
            @@ (get_space_heat_cons_key(agent.Name) :>
                sum_of(Simulated("residential_space_heating",
                                 residential_gross_floor_area,
                                 seed_residential_heating),
                       Simulated("commercial_space_heating", 0,
                                 seed_commercial_heating),
                       Simulated("school_space_heating", 0,
                                 seed_school_heating)))
            @@ (get_hot_tap_water_cons_key(agent.Name) :>
                sum_of(Simulated("residential_hot_tap_water",
                                 residential_gross_floor_area,
                                 seed_residential_heating),
                       Simulated("commercial_hot_tap_water", 0,
                                 seed_commercial_heating),
                       Simulated("school_hot_tap_water", 0,
                                 seed_school_heating)))
        with_cons ==
            IF {get_elec_cons_key(agent.Name),
                get_space_heat_cons_key(agent.Name),
                get_hot_tap_water_cons_key(agent.Name)}
                   \subseteq DOMAIN with_existing
            THEN with_existing
            ELSE cons_data @@ with_existing
    IN  IF get_pv_prod_key(agent.Name) \in DOMAIN with_cons THEN with_cons
        ELSE with_cons
             @@ (get_pv_prod_key(agent.Name) :>
                    calculate_solar_prod(agent.PVArea, default_pv_efficiency))

\* The table of a configuration: the loop of run over its agents.
RECURSIVE GenerateFor(_, _, _, _)
GenerateFor(building_agents, default_pv_efficiency, output_per_building, data_sets) ==
    IF building_agents = {} THEN output_per_building
    ELSE LET agent == CHOOSE agent \in building_agents : TRUE
         IN  GenerateFor(building_agents \ {agent}, default_pv_efficiency,
                         simulate_and_add_to_output_df(
                             agent, default_pv_efficiency,
                             output_per_building, data_sets),
                         data_sets)

\* The runs of the mock data generation that are followed.
MaxRuns == 3

MockInit ==
    /\ config = [block_agents |-> <<>>, has_grid_agent |-> TRUE]
    /\ pc = "mock_data"
    /\ job = NoJob
    /\ stop_event = FALSE
    /\ batch_number = 0
    /\ thsps_in_this_batch = <<>>
    /\ all_trades_list_batch = {}
    /\ storage_levels_batch = {}
    /\ shallow_storage_end = <<>>
    /\ deep_storage_end = <<>>
    /\ db_trades = {}
    /\ db_levels = {}
    /\ db_extra_costs = {}
    /\ price_models = {}
    /\ last_horizon = <<>>
    /\ optimized = <<>>
    /\ raised = NoError
    /\ solved = <<>>
    /\ all_data_sets = <<>>
    /\ mock_runs = <<>>
    /\ table_config = <<>>
    /\ table_agent = <<>>
    /\ table_job = {}
    /\ returned = <<>>
    /\ session_state = <<>>

\* run: the stored data set of the configuration is returned, after it has
\* been generated and stored when there was none.
run ==
    /\ pc = "mock_data"
    /\ Len(mock_runs) < MaxRuns
    /\ \E building_agents \in MockConfigs :
          LET mock_data_key ==
                  MockDataKey(building_agents, DefaultPVEfficiency)
          IN  /\ all_data_sets' =
                     IF mock_data_key \in DOMAIN all_data_sets
                     THEN all_data_sets
                     ELSE all_data_sets
                          @@ (mock_data_key :>
                                 GenerateFor(building_agents,
                                             DefaultPVEfficiency, <<>>,
                                             all_data_sets))
              /\ mock_runs' =
                     Append(mock_runs,
                            [mock_data_key |-> mock_data_key,
                             data |-> all_data_sets'[mock_data_key]])
    /\ UNCHANGED <<config, pc, job, stop_event, batch_number,
                   thsps_in_this_batch, all_trades_list_batch,
                   storage_levels_batch, shallow_storage_end,
                   deep_storage_end, db_trades, db_levels, db_extra_costs,
                   price_models, last_horizon, optimized, raised, solved,
                   table_config, table_agent, table_job, returned,
                   session_state>>

MockNext == run

MockSpec == MockInit /\ [][MockNext]_vars


(***************************************************************************)
(* The grid agent of a market: the trades with the external grid that      *)
(* balance the trades of a period.  The trades handed over are db_trades,  *)
(* the trades returned all_trades_list_batch, the estimated prices of the  *)
(* data store price_models.                                                *)
(***************************************************************************)
\* A variant that sells what has been bought and buys what has been sold,
\* whatever the other side of the market has traded.
calculate_external_trades_for_resource_and_market_gross(guid, market, period, resource, trades_for_this_resource, retail_price, wholesale_price) ==
    LET trades_for_this_resource_and_market ==
            {trade \in trades_for_this_resource : trade.market = market}
        sum_buys ==
            SumOfQuantities({trade \in trades_for_this_resource_and_market :
                                trade.action = "BUY"})
        sum_sells ==
            SumOfQuantities({trade \in trades_for_this_resource_and_market :
                                trade.action = "SELL"})
    IN  IF sum_buys > sum_sells
        THEN {MarketTrade("SELL", resource, sum_buys, retail_price, guid,
                          TRUE, market, period)}
        ELSE IF sum_buys < sum_sells
        THEN {MarketTrade("BUY", resource, sum_sells, wholesale_price, guid,
                          TRUE, market, period)}
        ELSE {}

calculate_external_trades_for_resource_and_market(guid, market, period, resource, trades_for_this_resource, retail_price, wholesale_price) ==
    LET trades_for_this_resource_and_market ==
            {trade \in trades_for_this_resource : trade.market = market}
        sum_buys ==
            SumOfQuantities({trade \in trades_for_this_resource_and_market :
                                trade.action = "BUY"})
        sum_sells ==
            SumOfQuantities({trade \in trades_for_this_resource_and_market :
                                trade.action = "SELL"})
    IN  IF sum_buys > sum_sells
        THEN {MarketTrade("SELL", resource, sum_buys - sum_sells,
                          retail_price, guid, TRUE, market, period)}
        ELSE IF sum_buys < sum_sells
        THEN {MarketTrade("BUY", resource, sum_sells - sum_buys,
                          wholesale_price, guid, TRUE, market, period)}
        ELSE {}

\* What calculate_external_trades returns, or raises.
calculate_external_trades(guid, resource, trades_excl_external, retail_price, wholesale_price) ==
    LET trades_for_this_resource ==
            {trade \in trades_excl_external : trade.resource = resource}
        all_periods == {trade.period : trade \in trades_for_this_resource}
        period == CHOOSE period \in all_periods : TRUE
        trades_for_period_resource ==
            {trade \in trades_for_this_resource : trade.period = period}
    IN  IF trades_for_this_resource = {}
        THEN [raised |-> NoError, trades_to_add |-> {}]
        ELSE IF Cardinality(all_periods) > 1
        THEN [raised |->
                  RuntimeError("When calculating external trades, received trades for more than 1 trading period!"),
              trades_to_add |-> {}]
        ELSE [raised |-> NoError,
              trades_to_add |->
                  calculate_external_trades_for_resource_and_market(
                      guid, "LOCAL", period, resource,
                      trades_for_period_resource, retail_price[period],
                      wholesale_price[period])
                  \cup calculate_external_trades_for_resource_and_market(
                      guid, "EXTERNAL", period, resource,
                      trades_for_period_resource, retail_price[period],
                      wholesale_price[period])]

GridPeriods == {0, 1}

\* The trades an agent may have made: none, or one of electricity.
TradesOfSource(source) ==
    {{}} \cup
    {{MarketTrade(action, "ELECTRICITY", quantity * kWh, 900, source, FALSE,
                  market, period)} :
        action \in {"BUY", "SELL"}, quantity \in {1, 2},
        market \in {"LOCAL", "EXTERNAL"}, period \in GridPeriods}

GridInit ==
    /\ config = [block_agents |-> <<>>, has_grid_agent |-> TRUE]
    /\ pc = "market_cleared"
    /\ job = NoJob
    /\ stop_event = FALSE
    /\ batch_number = 0
    /\ thsps_in_this_batch = <<>>
    /\ all_trades_list_batch = {}
    /\ storage_levels_batch = {}
    /\ shallow_storage_end = <<>>
    /\ deep_storage_end = <<>>
    /\ \E first \in TradesOfSource("BuildingAgent") :
          \E second \in TradesOfSource("PVAgent") :
              \E heat \in {{}, {MarketTrade("BUY", "HEATING", kWh, 500,
                                            "BuildingAgent", FALSE, "LOCAL",
                                            1)}} :
                  db_trades = first \cup second \cup heat
    /\ db_levels = {}
    /\ db_extra_costs = {}
    /\ price_models =
           {PriceObservation(kind, "ELECTRICITY", period, "ElectricityGridAgent",
                             IF kind = "estimated_retail" THEN 1000 + period
                             ELSE 500 + period) :
               kind \in {"estimated_retail", "estimated_wholesale"},
               period \in GridPeriods}
    /\ last_horizon = <<>>
    /\ optimized = <<>>
    /\ raised = NoError
    /\ solved = <<>>
    /\ all_data_sets = <<>>
    /\ mock_runs = <<>>
    /\ table_config = <<>>
    /\ table_agent = <<>>
    /\ table_job = {}
    /\ returned = <<>>
    /\ session_state = <<>>

\* The estimated price of a kind of the data store, by period.
EstimatedPriceOfStore(kind) ==
    [period \in GridPeriods |->
        (CHOOSE o \in price_models :
            (o.kind = kind) /\ (o.period = period)).value]

CalculateExternalTrades ==
    /\ pc = "market_cleared"
    /\ LET outcome ==
               calculate_external_trades(
                   "ElectricityGridAgent", "ELECTRICITY", db_trades,
                   EstimatedPriceOfStore("estimated_retail"),
                   EstimatedPriceOfStore("estimated_wholesale"))
       IN  /\ all_trades_list_batch' = outcome.trades_to_add
           /\ raised' = outcome.raised
           /\ pc' = IF outcome.raised = NoError THEN "balanced"
                    ELSE "not_balanced"
    /\ UNCHANGED <<config, all_data_sets, mock_runs, table_config, table_agent,
                   table_job, returned, session_state, job, stop_event,
                   batch_number, thsps_in_this_batch, storage_levels_batch,
                   shallow_storage_end, deep_storage_end, db_trades,
                   db_levels, db_extra_costs, price_models, last_horizon,
                   optimized, solved>>

GridNext == CalculateExternalTrades

GridSpec == GridInit /\ [][GridNext]_vars


(***************************************************************************)
(* The loop of TradingSimulator.run over the batches and their horizons,   *)
(* for any number of trading periods, any trading horizon and any number   *)
(* of batches: what optimize does with a horizon is left out.              *)
(***************************************************************************)
MaxPeriods == 7
MaxHorizon == 3
MaxBatches == 3

\* some_list[start:stop]
Slice(some_list, start, stop) ==
    SubSeq(some_list, Min(start, Len(some_list)) + 1,
           Min(stop, Len(some_list)))

\* some_list[::step]
EveryNth(some_list, step) ==
    [k \in 1 .. ((Len(some_list) + step - 1) \div step) |->
        some_list[(k - 1) * step + 1]]

\* A variant that takes a whole batch of horizon starts, whatever the number
\* of trading horizons is.
horizons_in_batch_unclipped(the_trading_periods, trading_horizon, n_batches, batch) ==
    LET n_trading_horizons == Len(the_trading_periods) \div trading_horizon
        batch_size == (n_trading_horizons + n_batches - 1) \div n_batches
    IN  Slice(EveryNth(the_trading_periods, trading_horizon),
              batch * batch_size, (batch + 1) * batch_size)

\* thsps_in_this_batch, as run lays it out for a batch.
horizons_in_batch(the_trading_periods, trading_horizon, n_batches, batch) ==
    LET n_trading_horizons == Len(the_trading_periods) \div trading_horizon
        batch_size == (n_trading_horizons + n_batches - 1) \div n_batches
    IN  Slice(EveryNth(the_trading_periods, trading_horizon),
              batch * batch_size,
              Min((batch + 1) * batch_size, n_trading_horizons))

PartitionInit ==
    /\ config \in [trading_periods :
                       {[i \in 1 .. n |-> i - 1] : n \in 0 .. MaxPeriods},
                   trading_horizon : 1 .. MaxHorizon,
                   number_of_batches : 1 .. MaxBatches]
    /\ pc = "batch_top"
    /\ job = NoJob
    /\ stop_event = FALSE
    /\ batch_number = 0
    /\ thsps_in_this_batch = <<>>
    /\ all_trades_list_batch = {}
    /\ storage_levels_batch = {}
    /\ shallow_storage_end = <<>>
    /\ deep_storage_end = <<>>
    /\ db_trades = {}
    /\ db_levels = {}
    /\ db_extra_costs = {}
    /\ price_models = {}
    /\ last_horizon = <<>>
    /\ optimized = <<>>
    /\ raised = NoError
    /\ solved = <<>>
    /\ all_data_sets = <<>>
    /\ mock_runs = <<>>
    /\ table_config = <<>>
    /\ table_agent = <<>>
    /\ table_job = {}
    /\ returned = <<>>
    /\ session_state = <<>>

\* The top of the loop over the batches: the horizons of the batch are laid
\* out.
LayOutBatch ==
    /\ pc = "batch_top"
    /\ thsps_in_this_batch' =
           horizons_in_batch(config.trading_periods, config.trading_horizon,
                             config.number_of_batches, batch_number)
    /\ pc' = "in_batch"
    /\ UNCHANGED <<config, all_data_sets, mock_runs, table_config, table_agent,
                   table_job, returned, session_state, job, stop_event,
                   batch_number, all_trades_list_batch, storage_levels_batch,
                   shallow_storage_end, deep_storage_end, db_trades,
                   db_levels, db_extra_costs, price_models, last_horizon,
                   optimized, raised, solved>>

\* One horizon of the batch is handed to optimize.
HandToOptimize ==
    /\ pc = "in_batch"
    /\ thsps_in_this_batch # <<>>
    /\ optimized' = Append(optimized,
                           [horizon_start |-> Head(thsps_in_this_batch),
                            stop_event |-> stop_event])
    /\ thsps_in_this_batch' = Tail(thsps_in_this_batch)
    /\ UNCHANGED <<config, all_data_sets, mock_runs, table_config, table_agent,
                   table_job, returned, session_state, pc, job, stop_event,
                   batch_number, all_trades_list_batch, storage_levels_batch,
                   shallow_storage_end, deep_storage_end, db_trades,
                   db_levels, db_extra_costs, price_models, last_horizon,
                   raised, solved>>

\* The end of a batch, and of the loop after the last batch.
EndBatch ==
    /\ pc = "in_batch"
    /\ thsps_in_this_batch = <<>>
    /\ batch_number' = batch_number + 1
    /\ pc' = IF batch_number + 1 < config.number_of_batches THEN "batch_top"
             ELSE "extract_resource_prices"
    /\ UNCHANGED <<config, all_data_sets, mock_runs, table_config, table_agent,
                   table_job, returned, session_state, job, stop_event,
                   thsps_in_this_batch, all_trades_list_batch,
                   storage_levels_batch, shallow_storage_end,
                   deep_storage_end, db_trades, db_levels, db_extra_costs,
                   price_models, last_horizon, optimized, raised, solved>>

PartitionNext ==
    \/ LayOutBatch
    \/ HandToOptimize
    \/ EndBatch

PartitionSpec == PartitionInit /\ [][PartitionNext]_vars


(***************************************************************************)
(* The stored configurations: sql/config/crud.py and sql/agent/crud.py.    *)
(* A table is the sequence of its rows in the order of their insertion; an *)
(* ID that the database generates is the number of the row.                *)
(***************************************************************************)
None == "None"

ConfigIds == {"default", "scenario"}

AreaInfos == {[LocalMarketEnabled |-> enabled] : enabled \in BOOLEAN}

MockDataConstantsOfConfigs == {[ResidentialElecKwhPerYearM2Atemp |-> 20]}

\* The agents a configuration may list: two of the same parameters under
\* two names, and one of other parameters under the name of the first.
AgentDicts ==
    {[Name |-> "A", Type |-> "BlockAgent", Atemp |-> 1000],
     [Name |-> "B", Type |-> "BlockAgent", Atemp |-> 1000],
     [Name |-> "A", Type |-> "BlockAgent", Atemp |-> 2000]}

ConfigDicts ==
    [Agents : {<<first>> : first \in AgentDicts}
              \cup {<<first, second>> : first \in AgentDicts,
                                        second \in AgentDicts},
     AreaInfo : AreaInfos,
     MockDataConstants : MockDataConstantsOfConfigs]

\* How many times a value occurs among the values of a dict or a list.
Counter(values) ==
    [value \in {values[key] : key \in DOMAIN values} |->
        Cardinality({key \in DOMAIN values : values[key] = value})]

\* first - second of two Counters: the positive differences.
CounterDifference(first, second) ==
    LET left(value) ==
            first[value]
            - (IF value \in DOMAIN second THEN second[value] ELSE 0)
    IN  [value \in {v \in DOMAIN first : left(v) > 0} |-> left(value)]

\* The keys of each part of the parameters that the new parameters have
\* changed.
param_diff(old_dict, new_dict) ==
    [part \in {"AreaInfo", "MockDataConstants"} |->
        {key \in DOMAIN new_dict[part] :
            (key \notin DOMAIN old_dict[part])
            \/ (old_dict[part][key] # new_dict[part][key])}]

check_if_agent_in_db(agents_in_table, agent_type, agent_config) ==
    LET agents_in_db ==
            {row \in DOMAIN agents_in_table :
                /\ agents_in_table[row].agent_type = agent_type
                /\ agents_in_table[row].config = agent_config}
    IN  IF agents_in_db = {} THEN None
        ELSE agents_in_table[CHOOSE row \in agents_in_db :
                                \A other \in agents_in_db : row <= other].id

create_agent(agents_in_table, agent_type, agent_config) ==
    Append(agents_in_table,
           [id |-> "agent" \o ToString(Len(agents_in_table) + 1),
            agent_type |-> agent_type, config |-> agent_config])

\* The table of agents after create_agent_if_not_in_db, and the ID it
\* returns.
create_agent_if_not_in_db(agents_in_table, agent) ==
    LET agent_config ==
            [key \in DOMAIN agent \ {"Name", "Type"} |-> agent[key]]
        agent_in_db_id ==
            check_if_agent_in_db(agents_in_table, agent.Type, agent_config)
    IN  IF agent_in_db_id = None
        THEN [agents |-> create_agent(agents_in_table, agent.Type,
                                      agent_config),
              id |-> "agent" \o ToString(Len(agents_in_table) + 1)]
        ELSE [agents |-> agents_in_table, id |-> agent_in_db_id]

\* {agent['Name']: create_agent_if_not_in_db(agent) for agent in agents}:
\* the table of agents and the dict after the agents from the i-th on.
RECURSIVE AgentNameAndIds(_, _, _, _)
AgentNameAndIds(agents, i, agents_in_table, agent_name_and_ids) ==
    IF i > Len(agents)
    THEN [agents |-> agents_in_table,
          agent_name_and_ids |-> agent_name_and_ids]
    ELSE LET created == create_agent_if_not_in_db(agents_in_table, agents[i])
         IN  AgentNameAndIds(
                 agents, i + 1, created.agents,
                 [name \in DOMAIN agent_name_and_ids \cup {agents[i].Name} |->
                     IF name = agents[i].Name THEN created.id
                     ELSE agent_name_and_ids[name]])

\* A variant that compares which agents two configurations have, not how
\* many of each.
check_if_config_in_db_by_set_of_agents(configs_in_db, some_config, agent_ids) ==
    LET matching ==
            {row \in DOMAIN configs_in_db :
                LET changed ==
                        param_diff(
                            [AreaInfo |-> configs_in_db[row].area_info,
                             MockDataConstants |->
                                 configs_in_db[row].mock_data_constants],
                            [AreaInfo |-> some_config.AreaInfo,
                             MockDataConstants |->
                                 some_config.MockDataConstants])
                IN  /\ changed["AreaInfo"] = {}
                    /\ changed["MockDataConstants"] = {}
                    /\ DOMAIN Counter(configs_in_db[row].agents_spec)
                           = DOMAIN Counter(agent_ids)}
    IN  IF matching = {} THEN None
        ELSE configs_in_db[CHOOSE row \in matching :
                              \A other \in matching : row <= other].id

\* The ID of the first stored configuration of the same parameters and the
\* same agents, as many times each.
check_if_config_in_db(configs_in_db, some_config, agent_ids) ==
    LET matching ==
            {row \in DOMAIN configs_in_db :
                LET changed ==
                        param_diff(
                            [AreaInfo |-> configs_in_db[row].area_info,
                             MockDataConstants |->
                                 configs_in_db[row].mock_data_constants],
                            [AreaInfo |-> some_config.AreaInfo,
                             MockDataConstants |->
                                 some_config.MockDataConstants])
                    diff1 == CounterDifference(
                                 Counter(configs_in_db[row].agents_spec),
                                 Counter(agent_ids))
                    diff2 == CounterDifference(
                                 Counter(agent_ids),
                                 Counter(configs_in_db[row].agents_spec))
                IN  /\ changed["AreaInfo"] = {}
                    /\ changed["MockDataConstants"] = {}
                    /\ DOMAIN diff1 = {}
                    /\ DOMAIN diff2 = {}}
    IN  IF matching = {} THEN None
        ELSE configs_in_db[CHOOSE row \in matching :
                              \A other \in matching : row <= other].id

check_if_id_in_db(configs_in_db, config_id) ==
    IF \E row \in DOMAIN configs_in_db : configs_in_db[row].id = config_id
    THEN config_id ELSE None

\* list(agent_name_and_ids.values())
ValuesOf(some_dict) ==
    LET RECURSIVE listed(_)
        listed(keys) ==
            IF keys = {} THEN <<>>
            ELSE LET key == CHOOSE k \in keys : TRUE
                 IN  <<some_dict[key]>> \o listed(keys \ {key})
    IN  listed(DOMAIN some_dict)

ConfigInit ==
    /\ config = <<>>
    /\ pc = "tables"
    /\ job = NoJob
    /\ stop_event = FALSE
    /\ batch_number = 0
    /\ thsps_in_this_batch = <<>>
    /\ all_trades_list_batch = {}
    /\ storage_levels_batch = {}
    /\ shallow_storage_end = <<>>
    /\ deep_storage_end = <<>>
    /\ db_trades = {}
    /\ db_levels = {}
    /\ db_extra_costs = {}
    /\ price_models = {}
    /\ last_horizon = <<>>
    /\ optimized = <<>>
    /\ raised = NoError
    /\ solved = <<>>
    /\ all_data_sets = <<>>
    /\ mock_runs = <<>>
    /\ table_config = <<>>
    /\ table_agent = <<>>
    /\ table_job = {}
    /\ returned = <<>>
    /\ session_state = <<>>

create_config_if_not_in_db ==
    /\ pc = "tables"
    /\ \E some_config \in ConfigDicts, config_id \in ConfigIds :
         LET id_exists == check_if_id_in_db(table_config, config_id)
             with_agents ==
                 AgentNameAndIds(some_config.Agents, 1, table_agent, <<>>)
             config_exists_id ==
                 check_if_config_in_db(
                     table_config, some_config,
                     ValuesOf(with_agents.agent_name_and_ids))
             call == [function |-> "create_config_if_not_in_db",
                      config |-> some_config, config_id |-> config_id]
         IN  IF id_exists # None
             THEN /\ returned' = [call |-> call, created |-> FALSE,
                                  id |-> id_exists]
                  /\ UNCHANGED <<table_config, table_agent>>
             ELSE /\ table_agent' = with_agents.agents
                  /\ IF config_exists_id = None
                     THEN /\ table_config' =
                                 Append(table_config,
                                        [id |-> config_id,
                                         description |-> "description",
                                         agents_spec |->
                                             with_agents.agent_name_and_ids,
                                         area_info |-> some_config.AreaInfo,
                                         mock_data_constants |->
                                             some_config.MockDataConstants])
                          /\ returned' = [call |-> call, created |-> TRUE,
                                          id |-> config_id]
                     ELSE /\ UNCHANGED table_config
                          /\ returned' = [call |-> call, created |-> FALSE,
                                          id |-> config_exists_id]
    /\ UNCHANGED <<config, all_data_sets, mock_runs, table_job, session_state,
                   pc, job, stop_event, batch_number, thsps_in_this_batch,
                   all_trades_list_batch, storage_levels_batch,
                   shallow_storage_end, deep_storage_end, db_trades,
                   db_levels, db_extra_costs, price_models, last_horizon,
                   optimized, raised, solved>>

\* A job is created for a stored configuration.
create_job ==
    /\ pc = "tables"
    /\ \E row \in DOMAIN table_config :
         /\ table_job' = table_job \cup {[config_id |-> table_config[row].id]}
         /\ returned' = [call |-> [function |-> "create_job",
                                   config_id |-> table_config[row].id]]
    /\ UNCHANGED <<config, all_data_sets, mock_runs, table_config, table_agent,
                   session_state, pc, job, stop_event, batch_number,
                   thsps_in_this_batch, all_trades_list_batch,
                   storage_levels_batch, shallow_storage_end,
                   deep_storage_end, db_trades, db_levels, db_extra_costs,
                   price_models, last_horizon, optimized, raised, solved>>

get_job_ids_for_config_id(config_id) ==
    {row \in table_job : row.config_id = config_id}

\* The table of configurations after delete_config.
delete_config(configs_in_db, config_id) ==
    SelectSeq(configs_in_db, LAMBDA row : row.id # config_id)

delete_config_if_no_jobs_exist ==
    /\ pc = "tables"
    /\ \E config_id \in ConfigIds :
         LET call == [function |-> "delete_config_if_no_jobs_exist",
                      config_id |-> config_id]
         IN  IF get_job_ids_for_config_id(config_id) = {}
             THEN /\ table_config' = delete_config(table_config, config_id)
                  /\ returned' =
                         [call |-> call,
                          deleted |->
                              check_if_id_in_db(table_config, config_id)
                                  # None]
             ELSE /\ UNCHANGED table_config
                  /\ returned' = [call |-> call, deleted |-> FALSE]
    /\ UNCHANGED <<config, all_data_sets, mock_runs, table_agent, table_job,
                   session_state, pc, job, stop_event, batch_number,
                   thsps_in_this_batch, all_trades_list_batch,
                   storage_levels_batch, shallow_storage_end,
                   deep_storage_end, db_trades, db_levels, db_extra_costs,
                   price_models, last_horizon, optimized, raised, solved>>

ConfigNext ==
    \/ create_config_if_not_in_db
    \/ create_job
    \/ delete_config_if_no_jobs_exist

ConfigSpec == ConfigInit /\ [][ConfigNext]_vars


(***************************************************************************)
(* The agents of the configuration that the app edits: app/app_inputs.py.  *)
(* set_config stores the configuration of the session after every change,  *)
(* so read_config returns the configuration that the session holds.        *)
(***************************************************************************)
MaxAgents == 4

MaxNameLen == 30

\* The types of the agents that the app's buttons add.
AddedTypes == {"BuildingAgent", "PVAgent"}

\* part in name, of two strings
In(part, name) ==
    \E i \in 1 .. (Len(name) - Len(part) + 1) :
        SubSeq(name, i, i + Len(part) - 1) = part

read_config == session_state.config_data

\* some_list.remove(element): without the first item equal to the element
Remove(some_list, element) ==
    LET first == CHOOSE i \in DOMAIN some_list :
                     /\ some_list[i] = element
                     /\ \A j \in 1 .. (i - 1) : some_list[j] # element
    IN  [i \in 1 .. (Len(some_list) - 1) |->
            IF i < first THEN some_list[i] ELSE some_list[i + 1]]

\* The name that duplicate_agent gives to the copy: the first
\* '<name> copy k' from k = n_copies_existing on that no agent has.
RECURSIVE NameOfCopy(_, _, _)
NameOfCopy(name, all_agent_names, n_copies_existing) ==
    LET new_name == name \o " copy " \o ToString(n_copies_existing)
    IN  IF new_name \notin all_agent_names THEN new_name
        ELSE NameOfCopy(name, all_agent_names, n_copies_existing + 1)

\* The name that add_agent gives to the new agent.
NameOfNew(agent_type, current_config) ==
    LET name_str == "New" \o agent_type
        number_of_existing_new_agents ==
            Cardinality({i \in DOMAIN current_config.Agents :
                            In(name_str, current_config.Agents[i].Name)})
    IN  name_str \o ToString(number_of_existing_new_agents + 1)

SessionInit ==
    /\ config = <<>>
    /\ pc = "app"
    /\ job = NoJob
    /\ stop_event = FALSE
    /\ batch_number = 0
    /\ thsps_in_this_batch = <<>>
    /\ all_trades_list_batch = {}
    /\ storage_levels_batch = {}
    /\ shallow_storage_end = <<>>
    /\ deep_storage_end = <<>>
    /\ db_trades = {}
    /\ db_levels = {}
    /\ db_extra_costs = {}
    /\ price_models = {}
    /\ last_horizon = <<>>
    /\ optimized = <<>>
    /\ raised = NoError
    /\ solved = <<>>
    /\ all_data_sets = <<>>
    /\ mock_runs = <<>>
    /\ table_config = <<>>
    /\ table_agent = <<>>
    /\ table_job = {}
    /\ returned = <<>>
    /\ session_state =
           [config_data |->
                [Agents |->
                     <<[Name |-> "ElectricityGridAgent",
                        Type |-> "GridAgent"],
                       [Name |-> "BuildingAgentB1",
                        Type |-> "BuildingAgent"]>>],
            agents_added |-> FALSE]

add_agent ==
    /\ pc = "app"
    /\ Len(session_state.config_data.Agents) < MaxAgents
    /\ \E agent_type \in AddedTypes :
         LET new_agent == [Name |-> NameOfNew(agent_type, read_config),
                           Type |-> agent_type]
         IN  session_state' =
                 [config_data |->
                      [Agents |-> Append(session_state.config_data.Agents,
                                         new_agent)],
                  agents_added |-> TRUE]
    /\ UNCHANGED <<config, all_data_sets, mock_runs, table_config, table_agent,
                   table_job, returned, pc, job, stop_event, batch_number,
                   thsps_in_this_batch, all_trades_list_batch,
                   storage_levels_batch, shallow_storage_end,
                   deep_storage_end, db_trades, db_levels, db_extra_costs,
                   price_models, last_horizon, optimized, raised, solved>>

duplicate_agent ==
    /\ pc = "app"
    /\ Len(session_state.config_data.Agents) < MaxAgents
    /\ \E i \in DOMAIN session_state.config_data.Agents :
         LET some_agent == session_state.config_data.Agents[i]
             all_agent_names ==
                 {read_config.Agents[j].Name : j \in DOMAIN read_config.Agents}
             new_agent ==
                 [some_agent EXCEPT
                     !.Name = NameOfCopy(some_agent.Name, all_agent_names, 1)]
         IN  /\ Len(new_agent.Name) <= MaxNameLen
             /\ session_state' =
                    [session_state EXCEPT
                        !.config_data.Agents = Append(@, new_agent)]
    /\ UNCHANGED <<config, all_data_sets, mock_runs, table_config, table_agent,
                   table_job, returned, pc, job, stop_event, batch_number,
                   thsps_in_this_batch, all_trades_list_batch,
                   storage_levels_batch, shallow_storage_end,
                   deep_storage_end, db_trades, db_levels, db_extra_costs,
                   price_models, last_horizon, optimized, raised, solved>>

remove_agent ==
    /\ pc = "app"
    /\ \E i \in DOMAIN session_state.config_data.Agents :
         LET some_agent == session_state.config_data.Agents[i]
         IN  IF some_agent.Type = "GridAgent"
             THEN UNCHANGED session_state
             ELSE session_state' =
                      [session_state EXCEPT
                          !.config_data.Agents = Remove(@, some_agent)]
    /\ UNCHANGED <<config, all_data_sets, mock_runs, table_config, table_agent,
                   table_job, returned, pc, job, stop_event, batch_number,
                   thsps_in_this_batch, all_trades_list_batch,
                   storage_levels_batch, shallow_storage_end,
                   deep_storage_end, db_trades, db_levels, db_extra_costs,
                   price_models, last_horizon, optimized, raised, solved>>

SessionNext ==
    \/ add_agent
    \/ duplicate_agent
    \/ remove_agent

SessionSpec == SessionInit /\ [][SessionNext]_vars


(***************************************************************************)
(* Properties.                                                             *)
(***************************************************************************)
Last(seq) == seq[Len(seq)]

Range(seq) == {seq[i] : i \in DOMAIN seq}

TradesOf(period, resource, action) ==
    {trade \in db_trades : /\ trade.period = period
                           /\ trade.resource = resource
                           /\ trade.action = action}

SumOfField(rows, field) == SumOver(rows, [row \in rows |-> row[field]])

\* C1: energy conservation.  After a completed simulation, for every period
\* and every resource, the quantity before loss of the BUY trades sums to
\* the quantity after loss of the SELL trades, to the resolution of the
\* quantities (10^-6 kWh) for each trade that is rounded.
C1_EnergyConservation ==
    (pc = "completed") =>
        \A i \in 1 .. NumPeriods :
            \A resource \in {trade.resource : trade \in db_trades} :
                LET bought == TradesOf(trading_periods[i], resource, "BUY")
                    sold == TradesOf(trading_periods[i], resource, "SELL")
                IN  Abs(SumOfField(bought, "quantity_pre_loss")
                        - SumOfField(sold, "quantity_post_loss"))
                    <= Cardinality(bought \cup sold)

CostsOf(period) ==
    LET trades == {trade \in db_trades : trade.period = period}
        extra == {e \in db_extra_costs : e.period = period}
    IN  SumOver(trades, [trade \in trades |-> get_cost_of_trade(trade)])
        + SumOfField(extra, "cost")

\* C2: zero-sum settlement.  After a completed simulation, for every period,
\* the costs of the trades of all agents and grid agents and the extra costs
\* sum to 0, to the resolution of the costs (10^-6 SEK) for each trade
\* that is rounded.
C2_ZeroSumSettlement ==
    (pc = "completed") =>
        \A i \in 1 .. NumPeriods :
            Abs(CostsOf(trading_periods[i]))
            <= Cardinality({trade \in db_trades :
                               trade.period = trading_periods[i]})

\* The level recorded for an agent at the last hour of the horizon that was
\* optimised last, 0 before the first horizon.
FinalLevel(key, agent) ==
    IF optimized = <<>> THEN {0}
    ELSE {l.level : l \in {l \in storage_levels_batch \cup db_levels :
                              /\ l.key = key
                              /\ l.agent = agent
                              /\ l.period = Last(optimized).horizon_start
                                            + (TradingHorizon - 1)}}

\* C3: carry-over of the building storage.  The shallow and the deep energy
\* every agent starts a horizon with is its energy at the last hour of the
\* horizon before, also when a batch has ended in between, and 0 in the
\* first horizon.
C3_CarryOver ==
    [][(optimized' # optimized) =>
          \A agent \in Agents :
              /\ FinalLevel("SHALLOW_STORAGE_ABS", agent)
                 = {last_horizon'.shallow_storage_start[agent]}
              /\ FinalLevel("DEEP_STORAGE_ABS", agent)
                 = {last_horizon'.deep_storage_start[agent]}]_vars

\* A first horizon of a batch has started from energy that the batch before
\* has saved.
C3_Witness ==
    /\ optimized # <<>>
    /\ storage_levels_batch = {}
    /\ \E agent \in Agents :
          /\ last_horizon.deep_storage_start[agent] > 0
          /\ last_horizon.shallow_storage_start[agent] > 0
          /\ \E l \in db_levels :
                /\ l.key = "DEEP_STORAGE_ABS"
                /\ l.agent = agent
                /\ l.period = last_horizon.horizon_start - 1
                /\ l.level = last_horizon.deep_storage_start[agent]

NonOptimal(horizon) == \E c \in Range(horizon.termination_conditions) :
                          c # "optimal"

\* C4: a termination condition other than optimal is treated as
\* infeasible.  optimize raises InfeasibilityError and returns no trades and
\* no metadata, nothing of the horizon is persisted, and the price models
\* gain only what the agents solved before the one that did not end optimal
\* have observed.
C4_NonOptimalIsInfeasible ==
    [][((optimized' # optimized) /\ NonOptimal(last_horizon')) =>
          /\ raised'.type = "InfeasibilityError"
          /\ all_trades_list_batch' = all_trades_list_batch
          /\ storage_levels_batch' = storage_levels_batch
          /\ db_trades' = {}
          /\ db_levels' = {}
          /\ db_extra_costs' = {}
          /\ \A o \in price_models' \ price_models :
                o.agent < Len(last_horizon'.termination_conditions)]_vars

\* A horizon has failed at its last agent after the price models have
\* taken the observations of an agent before it.
C4_Witness ==
    /\ pc = "failed"
    /\ NonOptimal(last_horizon)
    /\ \E o \in price_models :
          /\ o.period >= last_horizon.horizon_start
          /\ o.agent < Len(last_horizon.termination_conditions)

\* C4, as stated: nothing of a horizon that did not end optimal is recorded
\* in the price models.
C4_NothingInPriceModels ==
    [][((optimized' # optimized) /\ NonOptimal(last_horizon')) =>
          (price_models' = price_models)]_vars

\* C5: the InfeasibilityError that leaves optimize carries the start of the
\* horizon, its end, and the names, without index, of the constraints that
\* handle_infeasibility has found violated.
C5_ErrorCarriesConstraints ==
    (raised.type = "InfeasibilityError") =>
        /\ raised.horizon_start = last_horizon.horizon_start
        /\ raised.horizon_end = last_horizon.horizon_start + TradingHorizon
        /\ raised.constraints = last_horizon.handled.constraints

\* C6: after an InfeasibilityError the job row is kept with the error as
\* its fail_info, the rows of the job are deleted, no further horizon is
\* simulated and end_time is not set; end_time is set only when run has
\* completed.
C6_InfeasibleJobKept ==
    [][/\ (pc' = "failed") =>
             /\ raised'.type = "InfeasibilityError"
             /\ job'.exists
             /\ job'.fail_info = raised'
             /\ ~job'.end_time
             /\ db_trades' = {}
             /\ db_levels' = {}
             /\ db_extra_costs' = {}
       /\ (raised'.type = "InfeasibilityError") => (pc' = "failed")
       /\ (pc = "failed") => (optimized' = optimized)
       /\ job'.end_time => (pc' = "completed")]_vars

\* A horizon has failed after earlier batches have saved their rows.
C6_Witness ==
    /\ pc = "failed"
    /\ batch_number > 0
    /\ job.fail_info.type = "InfeasibilityError"
    /\ db_trades = {}

HorizonsAfterStop == {k \in DOMAIN optimized : optimized[k].stop_event}

C8_OtherErrorDeletesJob ==
    /\ (pc = "deleted") =>
          /\ raised.type \in {"Exception", "RuntimeError"}
          /\ job = NoJob
          /\ db_trades = {}
          /\ db_levels = {}
          /\ db_extra_costs = {}
    /\ (raised.type \in {"Exception", "RuntimeError"}) => (pc = "deleted")

\* An exception other than InfeasibilityError has been raised in a horizon
\* after earlier batches have saved their rows.
C8_Witness ==
    /\ pc = "deleted"
    /\ batch_number > 0
    /\ raised.type = "RuntimeError"
    /\ ~job.exists

\* C9: in every optimal solution the battery and the tank end the horizon
\* at the state of charge they have started it with, also when the agent
\* has no battery or no tank.
C9_Cyclicity ==
    \A h \in DOMAIN solved :
        /\ solved[h].s.SOCBES[TradingHorizon - 1] = solved[h].model.SOCBES0
        /\ solved[h].s.SOCTES[TradingHorizon - 1] = solved[h].model.SOCTES0

\* A battery has left its initial state of charge within the horizon.
C9_Witness ==
    \E h \in DOMAIN solved :
        /\ solved[h].model.Emax_BES > 0
        /\ solved[h].s.SOCBES[0] # solved[h].model.SOCBES0
        /\ solved[h].s.SOCBES[TradingHorizon - 1] = solved[h].model.SOCBES0

\* The area of the building of the first agent that its storage is made of.
BuildArea ==
    (BlockAgentOf(config.block_agents[1]).atemp
     * BlockAgentOf(config.block_agents[1]).frac_for_bites) \div 100

NetOf(h, hour, resource) ==
    IF resource = "ELECTRICITY"
    THEN solved[h].s.Pbuy_grid[hour] - solved[h].s.Psell_grid[hour]
    ELSE solved[h].s.Hbuy_grid[hour]

LossOf(h, resource) ==
    IF resource = "ELECTRICITY" THEN 0 ELSE solved[h].model.Heat_trans_loss

\* The trades of the agent itself for an hour and a resource.
EmittedFor(h, hour, resource) ==
    {trade \in solved[h].trades :
        /\ ~trade.by_external
        /\ trade.period = solved[h].start_datetime + hour
        /\ trade.resource = resource}

TradesOfJob == all_trades_list_batch \cup db_trades

\* The trades of a set that share who made them, the hour, the resource
\* and the market with a trade.
AlikeIn(trades, trade) ==
    {other \in trades : /\ other.by_external = trade.by_external
                        /\ other.source = trade.source
                        /\ other.period = trade.period
                        /\ other.resource = trade.resource
                        /\ other.market = trade.market}

AtLeast(a, b) == (~IsNaN(a)) /\ (~IsNaN(b)) /\ (a >= b)

\* The estimated prices of a resource at an hour of a solved horizon.
EstimatedPrices(h, hour, resource) ==
    IF resource = "ELECTRICITY"
    THEN [retail |->
              calculate_estimated_electricity_retail_price(
                  hour, solved[h].start_datetime, solved[h].s,
                  get_sum_of_param).estimated_marginal_price,
          wholesale |->
              calculate_estimated_electricity_wholesale_price(
                  hour, solved[h].start_datetime)]
    ELSE [retail |->
              calculate_estimated_heating_retail_price(
                  solved[h].start_datetime, solved[h].s, get_sum_of_param),
          wholesale |-> calculate_estimated_heating_wholesale_price]

ExternalElecBuys(h) ==
    {trade \in solved[h].trades : /\ ~trade.by_external
                                  /\ trade.action = "BUY"
                                  /\ trade.resource = "ELECTRICITY"}

\* The effect fee of a solved horizon: the fee of a day for each kW of the
\* average of the highest loads.
EffectFeeOfHorizon(h) ==
    MulDiv(avg_elec_peak_load(solved[h].s),
           MulDiv(area_info.ElectricityEffectFee, 1,
                  get_days_in_month(Month(solved[h].start_datetime))),
           kWh)

\* The sum of the indices of the hours of a horizon.
SumOfHourIndices == (TradingHorizon * (TradingHorizon - 1)) \div 2

ExternalTradesIn(period) ==
    {x \in db_trades : (x.period = period) /\ x.by_external}

\* The trades of the block agents on the other side of a trade of the grid
\* agent.
CounterpartsOf(external_trade) ==
    {x \in db_trades :
        /\ x.period = external_trade.period
        /\ ~x.by_external
        /\ x.action = IF external_trade.action = "SELL" THEN "BUY"
                      ELSE "SELL"}

ExtraCostsIn(period) == {e \in db_extra_costs : e.period = period}

HeatingPriceOf(kind) == (CHOOSE o \in price_models : o.kind = kind).value

\* What the exact price adds to the cost of the agents for a trade of the
\* grid agent: more to pay for what the grid sold when the exact retail
\* price is above the estimated one, and less earned for what the grid
\* bought when the exact wholesale price is below the estimated one.
Discrepancy(external_trade) ==
    IF external_trade.action = "SELL"
    THEN MulDiv(HeatingPriceOf("exact_retail")
                  - HeatingPriceOf("estimated_retail"),
                external_trade.quantity, 1000)
    ELSE MulDiv(HeatingPriceOf("estimated_wholesale")
                  - HeatingPriceOf("exact_wholesale"),
                external_trade.quantity, 1000)

\* The exact price less the estimated price, times the quantity of the
\* trade of the grid agent.
ExactLessEstimated(external_trade) ==
    IF external_trade.action = "SELL"
    THEN MulDiv(HeatingPriceOf("exact_retail")
                  - HeatingPriceOf("estimated_retail"),
                external_trade.quantity, 1000)
    ELSE MulDiv(HeatingPriceOf("exact_wholesale")
                  - HeatingPriceOf("estimated_wholesale"),
                external_trade.quantity, 1000)

SellsOfMonthOf(period) ==
    {o \in price_models : /\ Year(o.period) = Year(period)
                          /\ Month(o.period) = Month(period)}

\* What the register has sold on a day of the month of a period.
DailyTotal(period, day) ==
    SumOfValues({o \in SellsOfMonthOf(period) : Day(o.period) = day})

\* C16: the peak-day average of a month is the largest daily total of the
\* sells among the days of the month, divided by 24, however many hours
\* of that day have a sell; of a month without a sell it is not a number.
C16_PeakDayAverage ==
    (pc = "priced") =>
        LET r == solved[1]
        IN  IF SellsOfMonthOf(r.period) = {}
            THEN IsNaN(r.peak_day_avg_consumption_kw)
            ELSE \E o \in SellsOfMonthOf(r.period) :
                    /\ 24 * r.peak_day_avg_consumption_kw
                           = DailyTotal(r.period, Day(o.period))
                    /\ \A other \in SellsOfMonthOf(r.period) :
                           DailyTotal(r.period, Day(other.period))
                               <= DailyTotal(r.period, Day(o.period))

\* C16 witness: February of the first year was asked for; its first day
\* has two sells of 1.2 kWh and its second day one sell of 4.8 kWh, and
\* the average is the 0.2 kW of the second day.
C16_Witness ==
    /\ pc = "priced"
    /\ solved[1].period = 2
    /\ Cardinality(SellsOfMonthOf(2)) = 3
    /\ DailyTotal(2, 0) = (24 * kWh) \div 10
    /\ DailyTotal(2, 1) = (48 * kWh) \div 10
    /\ solved[1].peak_day_avg_consumption_kw = (2 * kWh) \div 10


\* The sells of the register in January and February of a year.
JanFebOfYear(year) ==
    {o \in price_models : (Year(o.period) = year) /\ (Month(o.period) <= 2)}

\* The sells of the register in January and February of any year.
JanFebOfAnyYear == {o \in price_models : Month(o.period) <= 2}

MeanOf(observations) ==
    SumOfValues(observations) \div Cardinality(observations)

\* Whether an average is the mean of the sells of January and February of
\* a year, or, when that year has none, the mean of the sells of every
\* January and February, or, when there is none, not a number.
IsJanFebAverage(average, year) ==
    IF JanFebOfYear(year) # {} THEN average = MeanOf(JanFebOfYear(year))
    ELSE IF JanFebOfAnyYear # {} THEN average = MeanOf(JanFebOfAnyYear)
    ELSE IsNaN(average)

\* C17: the January-February average asked for at a period is the mean of
\* the sells of January and February of the year before the period when
\* the period is in January or February, of the year of the period when it
\* is later in the year; when that year has no such sell it is the mean of
\* the sells of every January and February, later ones included.
C17_JanFebAverage ==
    (pc = "priced") =>
        LET r == solved[1]
        IN  IsJanFebAverage(r.jan_feb_avg_consumption_kw,
                            IF Month(r.period) <= 2 THEN Year(r.period) - 1
                            ELSE Year(r.period))

\* C17 as stated: for a period in January or February the average is the
\* mean of the sells of January and February of the year of the period.
C17_InProgressJanFeb ==
    (pc = "priced") =>
        LET r == solved[1]
        IN  IsJanFebAverage(r.jan_feb_avg_consumption_kw, Year(r.period))

\* C17 witness: February of the second year was asked for; the first year
\* has sold 1.2 kWh an hour in its February and the second year 4.8 kWh an
\* hour in its January and February, and the average is 1.2 kW.
C17_Witness ==
    /\ pc = "priced"
    /\ solved[1].period = 365 * 24 + 1
    /\ JanFebOfYear(0) # {}
    /\ JanFebOfYear(1) # {}
    /\ MeanOf(JanFebOfYear(0)) = (12 * kWh) \div 10
    /\ MeanOf(JanFebOfYear(1)) = (48 * kWh) \div 10
    /\ solved[1].jan_feb_avg_consumption_kw = (12 * kWh) \div 10


\* C18: when the register has no consumption in the month asked for, as
\* when the register is empty, the exact retail price and the exact
\* wholesale price of the month are not a number.
C18_NoConsumptionIsNaN ==
    (pc = "priced") =>
        LET r == solved[1]
        IN  (SumOfValues(SellsOfMonthOf(r.period)) = 0) =>
                /\ IsNaN(r.exact_retail_price)
                /\ IsNaN(r.exact_wholesale_price)

\* C18 witness: July of the second year was asked for of a register that
\* has sells in February of the first year and none in that July, and both
\* prices are not a number.
C18_Witness ==
    /\ pc = "priced"
    /\ solved[1].period = 365 * 24 + summer_block_offset
    /\ SumOfValues(JanFebOfYear(0)) > 0
    /\ SellsOfMonthOf(solved[1].period) = {}
    /\ IsNaN(solved[1].exact_retail_price)
    /\ IsNaN(solved[1].exact_wholesale_price)


\* C19: with a configuration that has no GridAgent no horizon is ever
\* handed to optimize, and once __call__ has run the RuntimeError of
\* initialize_agents has been raised and neither the job row nor a row of
\* the job exists.
C19_NoGridAgentIsFatal ==
    (~config.has_grid_agent) =>
        /\ optimized = <<>>
        /\ last_horizon = <<>>
        /\ pc \in {"created", "deleted"}
        /\ (pc = "deleted") =>
              /\ raised = RuntimeError("No grid agent initialized")
              /\ ~job.exists
              /\ job.start_time = FALSE
              /\ db_trades = {}
              /\ db_levels = {}
              /\ db_extra_costs = {}

\* C19 witness: __call__ has run on a configuration without a GridAgent.
C19_Witness ==
    /\ ~config.has_grid_agent
    /\ pc = "deleted"
    /\ raised.message = "No grid agent initialized"
    /\ job = NoJob
    /\ optimized = <<>>


\* What a configuration generates from the seeds of its agents alone, with
\* no data set stored.
FreshlyGenerated(mock_data_key) ==
    GenerateFor(mock_data_key.building_agents_frozen_set,
                mock_data_key.default_pv_efficiency, <<>>, <<>>)

\* C20: two runs of the mock data generation with the same configuration
\* return the same series, and the series a run returns are those the
\* configuration generates from the seeds of its agents alone, whatever
\* has been generated and stored before.
C20_MockDataReuseIsDeterministic ==
    /\ \A i, j \in DOMAIN mock_runs :
           (mock_runs[i].mock_data_key = mock_runs[j].mock_data_key)
               => (mock_runs[i].data = mock_runs[j].data)
    /\ \A i \in DOMAIN mock_runs :
           mock_runs[i].data = FreshlyGenerated(mock_runs[i].mock_data_key)

\* C20 witness: a configuration has been run a first time, then a
\* configuration that shares an agent with it and has another, then the
\* first configuration again, which returns the series of its first run.
C20_Witness ==
    /\ Len(mock_runs) = 3
    /\ mock_runs[1].mock_data_key = mock_runs[3].mock_data_key
    /\ mock_runs[2].mock_data_key # mock_runs[1].mock_data_key
    /\ mock_runs[1].mock_data_key.building_agents_frozen_set
           \cap mock_runs[2].mock_data_key.building_agents_frozen_set # {}
    /\ Cardinality(DOMAIN all_data_sets) = 2
    /\ mock_runs[1].data = mock_runs[3].data


\* The trades of electricity handed to the grid agent.
ElectricityTradesHandedOver ==
    {trade \in db_trades : trade.resource = "ELECTRICITY"}

\* What the trades handed over have bought or sold on a market.
HandedOver(action, market) ==
    SumOfQuantities({trade \in ElectricityTradesHandedOver :
                        (trade.action = action) /\ (trade.market = market)})

\* The value of the estimated price of a kind at a period in the data store.
StorePrice(kind, period) ==
    (CHOOSE o \in price_models : (o.kind = kind) /\ (o.period = period)).value

WholeWindowStarts ==
    [k \in 1 .. (Len(config.trading_periods) \div config.trading_horizon) |->
        (k - 1) * config.trading_horizon]

\* The horizon starts handed to optimize so far.
StartsOptimized == [k \in 1 .. Len(optimized) |-> optimized[k].horizon_start]

\* C22: the horizons handed to optimize are at any time the first of the
\* window starts 0, H, 2H, ... of the floor(N/H) whole windows, in that
\* order, and after the last batch they are all of them: each once, none
\* skipped or repeated, and none that starts a window shorter than H; a
\* batch that starts at or after the last whole window is empty.
C22_HorizonPartition ==
    /\ Len(StartsOptimized) <= Len(WholeWindowStarts)
    /\ StartsOptimized = SubSeq(WholeWindowStarts, 1, Len(StartsOptimized))
    /\ \A k \in 1 .. Len(StartsOptimized) :
          StartsOptimized[k] + config.trading_horizon
              <= Len(config.trading_periods)
    /\ (pc = "extract_resource_prices") =>
           /\ StartsOptimized = WholeWindowStarts
           /\ batch_number = config.number_of_batches
    /\ ((pc = "in_batch")
           /\ (Len(StartsOptimized) = Len(WholeWindowStarts))) =>
           (thsps_in_this_batch = <<>>)

\* C22 witness: seven periods in windows of two hours and two batches: the
\* three whole windows have been optimized, two in the first batch and one
\* in the second, and the window of the seventh hour has not.
C22_Witness ==
    /\ pc = "extract_resource_prices"
    /\ Len(config.trading_periods) = 7
    /\ config.trading_horizon = 2
    /\ config.number_of_batches = 2
    /\ StartsOptimized = <<0, 2, 4>>


\* The heating that the register holds as sold to an agent on a day.
HeatingSoldOnDay(agent, day) ==
    SumOfValues({o \in price_models :
                    /\ o.kind = "external_sell_for_agent"
                    /\ o.resource = "HIGH_TEMP_HEAT"
                    /\ o.agent = agent
                    /\ Day(o.period) = day})

\* C23: the price models are written only in the step that optimizes a
\* horizon, with observations of the hours of that horizon; at the start of
\* each horizon optimize reads the register of the heating sold to each
\* agent, which holds the horizons extracted before (the simulated hours of
\* a month are of one day, so the peak-day average is that day's total over
\* 24); the exact prices and extra costs are calculated only after every
\* horizon of every batch has been optimized and its trades and levels
\* have been saved.
C23_RegisterWrittenPerHorizonReconciledAtTheEnd ==
    [][/\ (price_models' # price_models) =>
              /\ Len(optimized') = Len(optimized) + 1
              /\ price_models \subseteq price_models'
              /\ \A o \in price_models' \ price_models :
                    o.period \in
                        {Last(optimized').horizon_start + hour : hour \in T}
       /\ (Len(optimized') = Len(optimized) + 1) =>
              /\ pc \in {"in_batch"}
              /\ \A agent \in
                      DOMAIN last_horizon'.hist_monthly_heat_peak_energy :
                    last_horizon'.hist_monthly_heat_peak_energy[agent] =
                        HeatingSoldOnDay(
                            agent, Day(last_horizon'.horizon_start)) \div 24
       /\ (pc' = "extract_resource_prices") =>
              /\ batch_number' = number_of_batches
              /\ Len(optimized') = number_of_trading_horizons
              /\ all_trades_list_batch' \subseteq db_trades'
              /\ storage_levels_batch' \subseteq db_levels'
       /\ (db_extra_costs' # db_extra_costs) =>
              \/ pc = "extract_resource_prices"
              \/ db_extra_costs' = {}
      ]_vars

\* C23 witness: a completed job whose last horizon was handed a historic
\* peak of heating that the earlier horizons of its day had registered.
C23_Witness ==
    /\ pc = "completed"
    /\ Len(optimized) = number_of_trading_horizons
    /\ \E agent \in DOMAIN last_horizon.hist_monthly_heat_peak_energy :
          last_horizon.hist_monthly_heat_peak_energy[agent] > 0

\* C23 as stated: the register of external sells is not read before the
\* last horizon has been extracted, so nothing that optimize is handed at
\* the start of a horizon comes from it.
C23_RegisterNotReadWhileHorizonsAreProcessed ==
    (last_horizon # <<>>) =>
        \A agent \in DOMAIN last_horizon.hist_monthly_heat_peak_energy :
            last_horizon.hist_monthly_heat_peak_energy[agent] = 0


\* The hours of the horizons of a completed job.
SimulatedHours ==
    {optimized[k].horizon_start + hour : k \in 1 .. Len(optimized), hour \in T}

\* What add_external_sell has registered in the price model of a resource
\* for an hour, from the model of an agent.
ExternalSells(resource, period, agent) ==
    {o \in price_models : /\ o.kind = "external_sell"
                          /\ o.resource = resource
                          /\ o.period = period
                          /\ o.agent = agent}

\* C24: after a full run, for every simulated hour and every model solved
\* for it, the electricity price model and the heating price model each
\* hold an external-sell observation, whose quantity is 0 when the grid
\* agent has sold nothing to that model in that hour.
C24_ExternalSellForEveryHour ==
    (pc = "completed") =>
        \A period \in SimulatedHours, agent \in Agents :
            \A resource \in {"ELECTRICITY", "HIGH_TEMP_HEAT"} :
                /\ ExternalSells(resource, period, agent) # {}
                /\ \A o \in ExternalSells(resource, period, agent) :
                      (o.value = 0) <=>
                          ~\E trade \in db_trades :
                              /\ trade.by_external
                              /\ trade.action = "SELL"
                              /\ trade.resource = resource
                              /\ trade.period = period
                              /\ trade.row = agent


\* C25: in every hour of every solved horizon the agent does not both buy
\* electricity from the grid and sell electricity to it, and what it buys
\* and what it sells are each at most Pmax_grid.
C25_NoBuyAndSellInTheSameHour ==
    \A h \in DOMAIN solved :
        \A t \in T :
            /\ ~((solved[h].s.Pbuy_grid[t] > 0)
                    /\ (solved[h].s.Psell_grid[t] > 0))
            /\ solved[h].s.Pbuy_grid[t] <= solved[h].model.Pmax_grid
            /\ solved[h].s.Psell_grid[t] <= solved[h].model.Pmax_grid

\* C25 witness: a solved horizon in which the agent sells electricity in
\* one hour, buying none, and buys electricity in another, selling none.
C25_Witness ==
    \E h \in DOMAIN solved :
        /\ \E t \in T : /\ solved[h].s.Psell_grid[t] > 0
                        /\ solved[h].s.Pbuy_grid[t] = 0
                        /\ solved[h].s.U_power_buy_sell_grid[t] = 0
        /\ \E t \in T : /\ solved[h].s.Pbuy_grid[t] > 0
                        /\ solved[h].s.Psell_grid[t] = 0
                        /\ solved[h].s.U_power_buy_sell_grid[t] = 1


\* The constraints that solve_model adds in winter mode only, and in summer
\* mode only.
WinterFamily ==
    {"con_max_Hsell_grid_winter", "con_agent_Pbalance_winter",
     "con_agent_Hbalance_winter"}

SummerFamily ==
    {"con_max_Hsell_grid_summer", "con_agent_Pbalance_summer",
     "con_agent_Hbalance_summer", "con_HTES_supplied_by_Bhp"}

\* C26: a horizon solved in winter mode sells no heat to the grid in any
\* hour and has no trade in which the block agent sells heat; a horizon
\* solved in summer mode sells at most Hmax_grid in every hour; the model
\* of a horizon has the constraints of the winter family and none of the
\* summer family, or those of the summer family and none of the winter
\* family.
C26_HeatExportGuard ==
    \A h \in DOMAIN solved :
        LET model == solved[h].model
            s == solved[h].s
        IN  /\ IF model.summer_mode
               THEN /\ \A t \in T : s.Hsell_grid[t] <= model.Hmax_grid
                    /\ SummerFamily \subseteq ActiveConstraints(model)
                    /\ WinterFamily \cap ActiveConstraints(model) = {}
               ELSE /\ \A t \in T : s.Hsell_grid[t] = 0
                    /\ \A trade \in solved[h].trades :
                          ~(/\ ~trade.by_external
                            /\ trade.action = "SELL"
                            /\ trade.resource \notin {"ELECTRICITY"})
                    /\ WinterFamily \subseteq ActiveConstraints(model)
                    /\ SummerFamily \cap ActiveConstraints(model) = {}
            /\ model.summer_mode
                   = should_use_summer_mode(solved[h].start_datetime)

\* C26 witness: a horizon solved in summer mode that sells heat to the
\* grid in some hour.
C26_Witness ==
    \E h \in DOMAIN solved :
        /\ solved[h].model.summer_mode
        /\ \E t \in T : solved[h].s.Hsell_grid[t] > 0


\* The hot water that an agent of the configuration needs in an hour of the
\* most recent horizon, and the most that its accumulator tank discharges.
HotWaterDemand(agent, hour) ==
    Usage(config.block_agents[agent],
          last_horizon.horizon_start + hour).hot_water

MaxTankDischarge(agent) ==
    MulDiv(BlockAgentOf(config.block_agents[agent]).acc_tank_volume,
           4182 * 998, 3600000) * area_info.ACC_TANK_TEMPERATURE

\* The agents whose hot water demand exceeds that in some hour.
AgentsWithTooBigDemand ==
    {agent \in Agents :
        \E hour \in T : HotWaterDemand(agent, hour) > MaxTankDischarge(agent)}

\* C27: when the hot water demand of an agent exceeds the maximum
\* discharge of its tank in some hour of the horizon, the unfillable-demand
\* error is raised before that agent's model is solved, and the job and
\* its rows are deleted; the error is not raised when every demand is
\* within the limit; an agent without a tank has its demand in the heat
\* balance, so the error is not raised for it.
C27_FailFastDemandCheck ==
    (last_horizon # <<>>) =>
        LET unfillable ==
                raised = RuntimeError("Unfillable hot water demand")
            failing == Len(last_horizon.termination_conditions) + 1
        IN  /\ unfillable =>
                  /\ failing \in AgentsWithTooBigDemand
                  /\ \A agent \in AgentsWithTooBigDemand : failing <= agent
                  /\ pc = "deleted"
                  /\ job = NoJob
                  /\ db_trades = {} /\ db_levels = {} /\ db_extra_costs = {}
            /\ (AgentsWithTooBigDemand = {}) => ~unfillable
            /\ unfillable =>
                  BlockAgentOf(config.block_agents[failing]).acc_tank_volume
                      > 0


\* C28: once the thread of a running simulation has been asked to stop,
\* the job is never marked as completed, and when the thread has ended the
\* job and all its rows are gone.
C28_StopNeverLeavesACompletedJob ==
    stop_event =>
        /\ ~job.end_time
        /\ (pc \in {"completed", "failed", "deleted"}) =>
               /\ job = NoJob
               /\ db_trades = {} /\ db_levels = {} /\ db_extra_costs = {}


\* What the claim calls the content of a stored configuration.
ContentOfRow(row) ==
    <<row.area_info, row.mock_data_constants, Counter(row.agents_spec)>>

\* The IDs that the agents of a configuration have in the table of agents:
\* a dict has one agent of each name, the last of that name in the list.
AgentIdsOf(some_config, agents_in_table) ==
    [name \in {some_config.Agents[i].Name : i \in DOMAIN some_config.Agents} |->
        LET last == CHOOSE i \in DOMAIN some_config.Agents :
                       /\ some_config.Agents[i].Name = name
                       /\ \A j \in DOMAIN some_config.Agents :
                              some_config.Agents[j].Name = name => j <= i
            agent == some_config.Agents[last]
        IN  (CHOOSE row \in Range(agents_in_table) :
                /\ row.agent_type = agent.Type
                /\ row.config = [Atemp |-> agent.Atemp]).id]

ConfigsAreUnique(configs_in_db) ==
    \A i, j \in DOMAIN configs_in_db :
        i # j => /\ configs_in_db[i].id # configs_in_db[j].id
                 /\ ContentOfRow(configs_in_db[i])
                        # ContentOfRow(configs_in_db[j])

CreateCallKeepsConfigsUnique ==
    LET call == returned'.call
        same_id == {row \in DOMAIN table_config :
                       table_config[row].id = call.config_id}
        same_content ==
            {row \in DOMAIN table_config :
                ContentOfRow(table_config[row])
                    = <<call.config.AreaInfo, call.config.MockDataConstants,
                        Counter(AgentIdsOf(call.config, table_agent'))>>}
    IN  IF same_id # {}
        THEN /\ table_config' = table_config
             /\ returned'.created = FALSE
             /\ returned'.id = call.config_id
        ELSE IF same_content # {}
        THEN /\ table_config' = table_config
             /\ returned'.created = FALSE
             /\ \E row \in same_content : returned'.id = table_config[row].id
        ELSE /\ returned'.created = TRUE
             /\ returned'.id = call.config_id
             /\ Len(table_config') = Len(table_config) + 1
             /\ Last(table_config').id = call.config_id

DeleteCallKeepsConfigsWithJobs ==
    \A row \in Range(table_config) :
        (\E some_job \in table_job : some_job.config_id = row.id)
            => row \in Range(table_config')

\* C29: after any calls of create_config_if_not_in_db, no two stored
\* configurations have the same ID or the same content (AreaInfo,
\* MockDataConstants and multiset of agent IDs); a call with an ID or a
\* content that is stored creates nothing, leaves the stored configurations
\* as they are and returns created=False with the ID of the stored one;
\* delete_config_if_no_jobs_exist never deletes a configuration with jobs.
C29_StoredConfigsAreUnique ==
    [][/\ ConfigsAreUnique(table_config')
       /\ returned'.call.function = "create_config_if_not_in_db"
              => CreateCallKeepsConfigsUnique
       /\ returned'.call.function = "delete_config_if_no_jobs_exist"
              => DeleteCallKeepsConfigsWithJobs]_vars

\* A configuration of a stored content was handed over under a new ID while
\* two configurations and a job are stored.
C29_Witness ==
    /\ pc = "tables"
    /\ returned # <<>>
    /\ returned.call.function = "create_config_if_not_in_db"
    /\ returned.created = FALSE
    /\ returned.id # returned.call.config_id
    /\ Len(returned.call.config.Agents) = 2
    /\ table_job # {}
    /\ Len(table_config) = 1


AgentNames == session_state.config_data.Agents

\* C30: starting from agents of pairwise distinct names, after any add_agent,
\* duplicate_agent and remove_agent the names of the agents of the
\* configuration are pairwise distinct.
C30_AgentNamesStayUnique ==
    pc = "app" =>
        \A i, j \in DOMAIN AgentNames :
            i # j => AgentNames[i].Name # AgentNames[j].Name

====
